---------------------------- MODULE Spec2Model ----------------------------
(***************************************************************************)
(* Desired-state reconciliation engine of halldyll_deploy_pods: the diff   *)
(* engine, the planner with its guardrails, the plan executor, the         *)
(* reconciler and the state store with its lock blob.                      *)
(*                                                                         *)
(* Conventions.  An Option<T> is a sequence of length at most one: None is *)
(* << >> and Some(x) is << x >>.  A SHA-256 digest is represented by the   *)
(* sequence of fields fed to the hasher (the digest is taken to be         *)
(* injective on what it is fed).  The remote provider is an environment:   *)
(* it keeps the tags a create request carries and reports them back in its *)
(* pod listing, lists its pods in an order of its own choosing, and may    *)
(* fail any call.                                                          *)
(***************************************************************************)
EXTENDS Integers, Sequences, FiniteSets, TLC

\* ------------------------------------------------------------------ bounds
\* Largest number of pods the provider holds at once.
MaxPods == 3
\* Number of pods the provider creates in one behaviour.
MaxCreates == 2
\* Number of provider calls that fail in one behaviour.
MaxFailures == 1
\* Number of command runs one behaviour goes through.
MaxRuns == 3
\* The clock advances MaxTicks times.
MaxTicks == 3
\* Longest observed list handed to compute_diff as a direct input.
MaxObserved == 2
\* Number of locks the clients write in one behaviour.
MaxLocks == 3
\* Calls the reading process makes on the files of the local backend.
MaxCalls == 2
\* Number of add_history calls made on one state.
MaxAdds == 5

\* --------------------------------------------------------- program constants
LOCK_EXPIRY_SECS == 300
MAX_HISTORY == 100
DEFAULT_MAX_ATTEMPTS == 3
\* One step of the clock: half an expiry window, so that a lock is seen before,
\* at and after its expires_at.
TickSecs == LOCK_EXPIRY_SECS \div 2

\* ------------------------------------------------------------------ options
None == << >>
Some(x) == << x >>
IsSome(o) == o # << >>
Unwrap(o) == o[1]

SeqMax(S) == CHOOSE m \in S : \A x \in S : x <= m

\* ---------------------------------------------------------------- documents
PROJECT == "proj"
ENVIRONMENT == "dev"

\* A PodConfig: the hashed fields the diff engine and the planner read.
PodConfig(name, count, image, env) ==
    [name |-> name, gpu_type |-> "A40", count |-> count, image |-> image, env |-> env]

WebV1 == PodConfig("web", 1, "svc:1.0", "e1")
\* Same pod, new image.
WebV2 == PodConfig("web", 1, "svc:1.1", "e1")
\* Same pod, same image and gpu, another environment map.
WebE2 == PodConfig("web", 1, "svc:1.0", "e2")
Web2G == PodConfig("web", 2, "svc:1.0", "e1")
Api2G == PodConfig("api", 2, "svc:1.0", "e1")

\* A DeployConfig: the ordered pod list and guardrails.max_gpus (an Option).
DeployConfig(pods, max_gpus) == [pods |-> pods, max_gpus |-> max_gpus]

Configs ==
    { DeployConfig(<< WebV1 >>, None),
      DeployConfig(<< WebV2 >>, None),
      DeployConfig(<< WebE2 >>, Some(1)),
      DeployConfig(<< WebV1, Api2G >>, Some(3)),
      DeployConfig(<< Web2G, Api2G >>, Some(3)),
      DeployConfig(<< Web2G, Api2G >>, None) }

\* u32::to_string for the gpu counts of the model.
to_string(n) == << "0", "1", "2", "3", "4", "5", "6", "7", "8" >>[n + 1]

\* ------------------------------------------------------------------- hasher
hash_pod(pod) == << pod.name, pod.gpu_type, pod.count, pod.image, pod.env >>

hash_config(config) ==
    << PROJECT, ENVIRONMENT,
       [i \in 1..Len(config.pods) |-> hash_pod(config.pods[i])],
       config.max_gpus >>

total_gpus(config) ==
    LET RECURSIVE Sum(_)
        Sum(i) == IF i = 0 THEN 0 ELSE config.pods[i].count + Sum(i - 1)
    IN Sum(Len(config.pods))

\* ConfigValidator: the guardrails rule of validate().
validate(config) ==
    IsSome(config.max_gpus) => total_gpus(config) <= Unwrap(config.max_gpus)

\* ----------------------------------------------------------------- provider
\* Provider ids, and the strings the diff engine formats from them.
PodId(n) == << "p1", "p2", "p3", "p4", "p5", "p6", "p7", "p8", "p9" >>[n]
IdNumber(id) == CHOOSE n \in 1..9 : PodId(n) = id
format_missing_was(id) ==
    << "missing (was p1)", "missing (was p2)", "missing (was p3)",
       "missing (was p4)", "missing (was p5)", "missing (was p6)",
       "missing (was p7)", "missing (was p8)", "missing (was p9)" >>[IdNumber(id)]

\* A pod as PodObserver::to_observed reports it.
ObservedPod(id, project, environment, pod_name, spec_hash, image, count) ==
    [id |-> id, project |-> project, environment |-> environment,
     pod_name |-> pod_name, spec_hash |-> spec_hash,
     gpu_type |-> Some("A40"), gpu_count |-> count, image |-> image]

\* The pod the provider holds after create_pod(pod_config, project, spec_hash).
CreatedPod(id, pod_config, spec_hash) ==
    [id |-> id, project |-> Some(PROJECT), environment |-> Some(ENVIRONMENT),
     pod_name |-> Some(pod_config.name), spec_hash |-> Some(spec_hash),
     gpu_type |-> Some(pod_config.gpu_type), gpu_count |-> pod_config.count,
     image |-> pod_config.image]

\* A listing that keeps every pod of the account.
list_unfiltered(all_pods, project, environment) == all_pods

\* PodObserver::list_project_pods: the filter on the project and environment tags.
list_project_pods(all_pods, project, environment) ==
    SelectSeq(all_pods, LAMBDA p : p.project = Some(project)
                                   /\ p.environment = Some(environment))

\* -------------------------------------------------------------- state types
PodState(name, runpod_id, config_hash) ==
    [name |-> name, runpod_id |-> runpod_id, config_hash |-> config_hash,
     status |-> "Creating", gpu_count |-> 0, image |-> ""]

\* DeploymentState::new
EmptyPods == [n \in {} |-> None]
NewDeploymentState ==
    [config_hash |-> << >>, pods |-> EmptyPods, history |-> << >>]

get_pod(state, name) ==
    IF name \in DOMAIN state.pods THEN Some(state.pods[name]) ELSE None

\* A set_pod that keeps the record a name already has.
set_pod_if_absent(state, pod) ==
    [state EXCEPT !.pods =
        [n \in DOMAIN state.pods \cup {pod.name} |->
            IF n \in DOMAIN state.pods THEN state.pods[n] ELSE pod]]

set_pod(state, pod) ==
    [state EXCEPT !.pods =
        [n \in DOMAIN state.pods \cup {pod.name} |->
            IF n = pod.name THEN pod ELSE state.pods[n]]]

remove_pod(state, name) ==
    [state EXCEPT !.pods = [n \in DOMAIN state.pods \ {name} |-> state.pods[n]]]

HistoryEntry(config_hash, resources, success, error) ==
    [operation |-> "Create", config_hash |-> config_hash,
     resources |-> resources, success |-> success, error |-> error]

\* An add_history that evicts only once the history is longer than the cap.
add_history_late(state, entry) ==
    LET kept == IF Len(state.history) > MAX_HISTORY
                THEN Tail(state.history) ELSE state.history
    IN [state EXCEPT !.history = Append(kept, entry)]

add_history(state, entry) ==
    LET kept == IF Len(state.history) >= MAX_HISTORY
                THEN Tail(state.history) ELSE state.history
    IN [state EXCEPT !.history = Append(kept, entry)]

\* ------------------------------------------------------ the state as JSON
\* A JSON object is a record or a function of its keys, an array a sequence,
\* a string itself; null and a string that may be null are tagged.
JsonNull == [type |-> "null", value |-> ""]
JsonString(s) == [type |-> "string", value |-> s]

\* DeploymentStatus, serde(rename_all = "lowercase"): variant and JSON string.
StatusNames ==
    { << "Creating", "creating" >>, << "Running", "running" >>,
      << "Stopped", "stopped" >>, << "Error", "error" >>,
      << "Deleting", "deleting" >>, << "Deleted", "deleted" >>,
      << "Unknown", "unknown" >> }
\* DeploymentOperation, serde(rename_all = "snake_case").
OperationNames ==
    { << "Create", "create" >>, << "Update", "update" >>, << "Scale", "scale" >>,
      << "Reconcile", "reconcile" >>, << "Destroy", "destroy" >> }

variant_to_json(names, v) == (CHOOSE n \in names : n[1] = v)[2]
variant_from_json(names, j) == (CHOOSE n \in names : n[2] = j)[1]

pod_to_json(pod) ==
    [pod EXCEPT !.status = variant_to_json(StatusNames, @)]
pod_from_json(j) ==
    [j EXCEPT !.status = variant_from_json(StatusNames, @)]

entry_to_json(entry) ==
    [entry EXCEPT !.operation = variant_to_json(OperationNames, @),
                  !.error = IF IsSome(@) THEN JsonString(Unwrap(@)) ELSE JsonNull]
entry_from_json(j) ==
    [j EXCEPT !.operation = variant_from_json(OperationNames, @),
              !.error = IF @ = JsonNull THEN None ELSE Some(@.value)]

RECURSIVE history_to_json(_)
history_to_json(history) ==
    IF history = << >> THEN << >>
    ELSE << entry_to_json(Head(history)) >> \o history_to_json(Tail(history))

RECURSIVE history_from_json(_)
history_from_json(j) ==
    IF j = << >> THEN << >>
    ELSE << entry_from_json(Head(j)) >> \o history_from_json(Tail(j))

\* serde_json::to_string_pretty(state)
to_json(state) ==
    [config_hash |-> state.config_hash,
     pods |-> [n \in DOMAIN state.pods |-> pod_to_json(state.pods[n])],
     history |-> history_to_json(state.history)]

\* A reader that skips the history of the blob.
from_json_skip_history(blob) ==
    [config_hash |-> blob.config_hash,
     pods |-> [n \in DOMAIN blob.pods |-> pod_from_json(blob.pods[n])],
     history |-> << >>]

\* serde_json::from_str(&content)
from_json(blob) ==
    [config_hash |-> blob.config_hash,
     pods |-> [n \in DOMAIN blob.pods |-> pod_from_json(blob.pods[n])],
     history |-> history_from_json(blob.history)]

\* -------------------------------------------------------------- diff engine
DiffDetail(field, old_value, new_value) ==
    [field |-> field, old_value |-> old_value, new_value |-> new_value]

ResourceDiff(name, diff_type, details, old_hash, new_hash) ==
    [name |-> name, diff_type |-> diff_type, details |-> details,
     old_hash |-> old_hash, new_hash |-> new_hash]

\* A map in which the first entry of the list with a given name stays.
first_by_name(observed, name) ==
    LET hits == {i \in 1..Len(observed) : observed[i].pod_name = Some(name)}
    IN IF hits = {} THEN None
       ELSE Some(observed[CHOOSE i \in hits : \A j \in hits : i <= j])

\* The HashMap collected from (pod_name, pod) pairs: a later entry of the list
\* replaces an earlier one with the same name.
observed_by_name(observed, name) ==
    LET hits == {i \in 1..Len(observed) : observed[i].pod_name = Some(name)}
    IN IF hits = {} THEN None ELSE Some(observed[SeqMax(hits)])

compute_detailed_diff(config, obs) ==
    LET image == IF config.image # obs.image
                 THEN << DiffDetail("image", Some(obs.image), Some(config.image)) >>
                 ELSE << >>
        gpu == IF IsSome(obs.gpu_type) /\ config.gpu_type # Unwrap(obs.gpu_type)
               THEN << DiffDetail("gpu_type", obs.gpu_type, Some(config.gpu_type)) >>
               ELSE << >>
        count == IF config.count # obs.gpu_count
                 THEN << DiffDetail("gpu_count", Some(to_string(obs.gpu_count)),
                                    Some(to_string(config.count))) >>
                 ELSE << >>
    IN image \o gpu \o count

\* The Update / Drift decision of compute_pod_diff when the hash differs.
update_or_drift(old_hash, state) ==
    IF IsSome(old_hash) THEN "Update" ELSE "Drift"

compute_pod_diff(config, observed, state, new_hash) ==
    IF IsSome(observed)
    THEN LET obs == Unwrap(observed)
             old_hash == obs.spec_hash
         IN IF old_hash = Some(new_hash)
            THEN ResourceDiff(config.name, "NoChange", << >>, old_hash, Some(new_hash))
            ELSE ResourceDiff(config.name, update_or_drift(old_hash, state),
                              compute_detailed_diff(config, obs),
                              old_hash, Some(new_hash))
    ELSE IF IsSome(state)
    THEN ResourceDiff(config.name, "Create",
                      << DiffDetail("pod",
                                    Some(format_missing_was(Unwrap(state).runpod_id)),
                                    Some(config.name)) >>,
                      Some(Unwrap(state).config_hash), Some(new_hash))
    ELSE ResourceDiff(config.name, "Create",
                      << DiffDetail("pod", None, Some(config.name)) >>,
                      None, Some(new_hash))

in_config(config, pod_name) ==
    \E i \in 1..Len(config.pods) : config.pods[i].name = pod_name

\* An orphan loop that walks the map by name instead of the list.
orphan_diffs_by_name(config, observed) ==
    LET orphan(p) == /\ IsSome(p.pod_name)
                     /\ ~in_config(config, Unwrap(p.pod_name))
                     /\ observed_by_name(observed, Unwrap(p.pod_name)) = Some(p)
        orphans == SelectSeq(observed, orphan)
    IN [i \in 1..Len(orphans) |->
          ResourceDiff(Unwrap(orphans[i].pod_name), "Delete",
                       << DiffDetail("pod", Some(orphans[i].id), None) >>,
                       orphans[i].spec_hash, None)]

\* The second loop of compute_diff: one Delete per observed pod whose local name
\* is not in the document.
orphan_diffs(config, observed) ==
    LET orphan(p) == IsSome(p.pod_name) /\ ~in_config(config, Unwrap(p.pod_name))
        orphans == SelectSeq(observed, orphan)
    IN [i \in 1..Len(orphans) |->
          ResourceDiff(Unwrap(orphans[i].pod_name), "Delete",
                       << DiffDetail("pod", Some(orphans[i].id), None) >>,
                       orphans[i].spec_hash, None)]

CountType(diffs, types) == Cardinality({i \in 1..Len(diffs) : diffs[i].diff_type \in types})

\* state is an Option<DeploymentState>.
compute_diff(config, state, observed) ==
    LET state_pod(name) == IF IsSome(state) THEN get_pod(Unwrap(state), name) ELSE None
        desired == [i \in 1..Len(config.pods) |->
                      compute_pod_diff(config.pods[i],
                                       observed_by_name(observed, config.pods[i].name),
                                       state_pod(config.pods[i].name),
                                       hash_pod(config.pods[i]))]
        diffs == desired \o orphan_diffs(config, observed)
    IN [diffs |-> diffs,
        creates |-> CountType(diffs, {"Create"}),
        updates |-> CountType(diffs, {"Update", "Drift"}),
        deletes |-> CountType(diffs, {"Delete"}),
        unchanged |-> CountType(diffs, {"NoChange"})]

has_changes(diff) == diff.creates > 0 \/ diff.updates > 0 \/ diff.deletes > 0

\* ------------------------------------------------------------------ planner
PlannedAction(action_type, resource_name, pod_config, runpod_id, new_hash, dependencies) ==
    [action_type |-> action_type, resource_name |-> resource_name,
     pod_config |-> pod_config, runpod_id |-> runpod_id,
     new_hash |-> new_hash, dependencies |-> dependencies]

\* config.pods.iter().find(|p| p.name == name)
find_pod_config(config, name) ==
    LET hits == {i \in 1..Len(config.pods) : config.pods[i].name = name}
    IN IF hits = {} THEN None
       ELSE Some(config.pods[CHOOSE i \in hits : \A j \in hits : i <= j])

\* details.first().and_then(|d| d.old_value.clone())
first_old_value(resource_diff) ==
    IF resource_diff.details = << >> THEN None
    ELSE resource_diff.details[1].old_value

\* A plan that leaves the Delete diffs out.
no_delete_actions(diff) == << >>

\* The first loop of from_diff: a DeletePod per Delete diff.
delete_actions(diff) ==
    LET dels == SelectSeq(diff.diffs, LAMBDA d : d.diff_type = "Delete")
    IN [i \in 1..Len(dels) |->
          PlannedAction("DeletePod", dels[i].name, None, first_old_value(dels[i]),
                        None, << >>)]

\* The second loop: a CreatePod per Create diff whose pod is in the document.
create_actions(diff, config) ==
    LET crs == SelectSeq(diff.diffs,
                         LAMBDA d : d.diff_type = "Create"
                                    /\ IsSome(find_pod_config(config, d.name)))
    IN [i \in 1..Len(crs) |->
          PlannedAction("CreatePod", crs[i].name, find_pod_config(config, crs[i].name),
                        None, crs[i].new_hash, << >>)]

\* A recreate whose create does not wait for its delete.
no_dependencies(delete_idx) == << >>

\* The dependencies of the CreatePod of a recreate: vec![delete_idx].
recreate_dependencies(delete_idx) == << delete_idx >>

\* The third loop: DeletePod then CreatePod for each Update or Drift diff, the
\* create depending on the index of its delete.  Indices are 0-based as in the
\* code: the action at index k is actions[k + 1].
RECURSIVE recreate_actions(_, _, _, _)
recreate_actions(diff, config, i, actions) ==
    IF i > Len(diff.diffs) THEN actions
    ELSE LET d == diff.diffs[i]
         IN IF d.diff_type \in {"Update", "Drift"} /\ IsSome(find_pod_config(config, d.name))
            THEN LET delete_idx == Len(actions)
                     del == PlannedAction("DeletePod", d.name, None,
                                          first_old_value(d), None, << >>)
                     cre == PlannedAction("CreatePod", d.name,
                                          find_pod_config(config, d.name), None,
                                          d.new_hash, recreate_dependencies(delete_idx))
                 IN recreate_actions(diff, config, i + 1, actions \o << del, cre >>)
            ELSE recreate_actions(diff, config, i + 1, actions)

RECURSIVE plan_gpus(_, _)
plan_gpus(actions, i) ==
    IF i = 0 THEN 0
    ELSE (IF IsSome(actions[i].pod_config) THEN Unwrap(actions[i].pod_config).count ELSE 0)
         + plan_gpus(actions, i - 1)

\* A check that never objects.
unchecked_guardrails(config, actions) == << >>

\* check_guardrails: the violation list (check_cost_guardrails adds nothing).
check_guardrails(config, actions) ==
    IF IsSome(config.max_gpus) /\ plan_gpus(actions, Len(actions)) > Unwrap(config.max_gpus)
    THEN << << "Plan requires", plan_gpus(actions, Len(actions)),
               "GPUs but max_gpus is", Unwrap(config.max_gpus) >> >>
    ELSE << >>

\* A planner that emits the creates before the deletes.
from_diff_creates_first(diff, config, config_hash) ==
    LET actions == recreate_actions(diff, config, 1,
                                    create_actions(diff, config) \o delete_actions(diff))
        violations == check_guardrails(config, actions)
    IN [config_hash |-> config_hash, actions |-> actions,
        passes_guardrails |-> violations = << >>,
        guardrail_violations |-> violations]

from_diff(diff, config, config_hash) ==
    LET actions == recreate_actions(diff, config, 1,
                                    delete_actions(diff) \o create_actions(diff, config))
        violations == check_guardrails(config, actions)
    IN [config_hash |-> config_hash, actions |-> actions,
        passes_guardrails |-> violations = << >>,
        guardrail_violations |-> violations]

EmptyDiff == [diffs |-> << >>, creates |-> 0, updates |-> 0, deletes |-> 0, unchanged |-> 0]
\* DeploymentPlan::empty
EmptyPlan == [config_hash |-> << >>, actions |-> << >>, passes_guardrails |-> TRUE,
              guardrail_violations |-> << >>]

\* ------------------------------------------------------------ input domains
\* web as an earlier apply of WebV1 left it.
ObsWebV1 == ObservedPod("p1", Some(PROJECT), Some(ENVIRONMENT), Some("web"),
                        Some(hash_pod(WebV1)), "svc:1.0", 1)
\* web with the project tags but no spec_hash tag.
ObsWebBare == ObservedPod("p2", Some(PROJECT), Some(ENVIRONMENT), Some("web"),
                          None, "svc:1.0", 1)
\* A project pod that no document of the model names.
ObsOld == ObservedPod("p3", Some(PROJECT), Some(ENVIRONMENT), Some("old"),
                      Some(<< "old", "A40", 1, "svc:1.0", "e1" >>), "svc:1.0", 1)
\* A pod named web that belongs to another project.
ObsForeign == ObservedPod("p4", Some("other"), Some(ENVIRONMENT), Some("web"),
                          Some(hash_pod(WebV1)), "svc:1.0", 1)
\* A pod with no tag at all.
ObsUntagged == ObservedPod("p5", None, None, None, None, "svc:1.0", 1)

\* A second project pod with the local name of ObsOld.
ObsOldTwin == ObservedPod("p8", Some(PROJECT), Some(ENVIRONMENT), Some("old"),
                          None, "svc:0.9", 1)

ObservedPool == {ObsWebV1, ObsWebBare, ObsOld, ObsForeign, ObsUntagged}
\* The first ids belong to the pods of the pool; the provider mints the later ones.
FirstFreshId == Cardinality(ObservedPool) + 1

\* The sequences that list every element of the set S once.
RECURSIVE Perms(_)
Perms(S) ==
    IF S = {} THEN {<< >>}
    ELSE UNION {{<< x >> \o p : p \in Perms(S \ {x})} : x \in S}

ObservedLists ==
    UNION {Perms(S) : S \in {T \in SUBSET (ObservedPool \cup {ObsOldTwin}) :
                                 Cardinality(T) <= MaxObserved}}

\* The state an earlier apply of WebV1 saved.
StateWebV1 ==
    [config_hash |-> hash_config(DeployConfig(<< WebV1 >>, None)),
     pods |-> [n \in {"web"} |->
                 [PodState("web", "p1", hash_pod(WebV1))
                    EXCEPT !.gpu_count = 1, !.image = "svc:1.0"]],
     history |-> << HistoryEntry(hash_config(DeployConfig(<< WebV1 >>, None)),
                                 << "web" >>, TRUE, None) >>]

\* The same with a record for api, whose pod p9 is gone from the provider.
StateWebApi == set_pod(StateWebV1, PodState("api", "p9", hash_pod(Api2G)))

StoredStates == {None, Some(StateWebV1), Some(StateWebApi)}

\* ---------------------------------------------------------------- variables
VARIABLES
    config,         \* the DeployConfig of the behaviour
    provider,       \* the pods the provider holds
    next_id,        \* number of the id the provider mints next
    failures,       \* provider calls that have failed so far
    store_state,    \* the state blob: the JSON of a DeploymentState, if any
    store_lock,     \* the lock blob: Option<LockInfo>
    now,            \* Utc::now()
    pc,             \* where the current command is
    state,          \* the command's in-memory Option<DeploymentState>
    observed,       \* the list the command got from list_project_pods
    diff,           \* the DiffResult of the command
    plan,           \* the DeploymentPlan of the command
    kind,           \* the command that runs, or ran last
    continue_on_error,  \* PlanExecutor.continue_on_error
    attempt,        \* the attempt of reconcile's loop
    idx,            \* index of the next action of the plan, or pod of destroy
    results,        \* the executor's Vec<ActionResult>
    failed_indices, \* the executor's failed_indices
    result,         \* reconcile's ReconciliationResult
    last_error,     \* reconcile's last_error
    sleeps,         \* retry sleeps reconcile has taken in this run
    trace,          \* what each ended command returned, oldest first
    last_call,      \* the last save or provisioner call, and under which lock
    lpc,            \* per lock client: where it is in acquire_lock / release_lock
    seen,           \* per lock client: what its read_lock_file returned
    granted,        \* per lock client: the LockInfo acquire_lock returned to it
    next_lock,      \* number of the next Uuid::new_v4
    dir,            \* local backend: the inode each path names, 0 for none
    inodes,         \* local backend: the content of each inode, in chunks
    fpc,            \* per saving process: where it is in save
    fd,             \* per saving process: the inode and offset of its open file
    fret,           \* what the last store call on the files returned
    hashes          \* the hasher's inputs and what hash_pod was fed for them

envVars == << provider, next_id, failures, store_state, store_lock, now >>
runVars == << kind, continue_on_error, attempt, idx, results, failed_indices,
              result, last_error, sleeps >>
ghostVars == << trace, last_call >>
lockVars == << lpc, seen, granted, next_lock >>
fileVars == << dir, inodes, fpc, fd, fret >>

vars == << config, pc, state, observed, diff, plan, envVars, runVars, ghostVars,
           lockVars, fileVars, hashes >>

\* The lock clients of the model.
Procs == {"a", "b"}

NoResult == [success |-> FALSE, errors |-> << >>]
NoCall == [op |-> "none", kind |-> "none", id |-> None, locked |-> FALSE,
           plan_ok |-> TRUE, run |-> 0]

\* No command has run.
NoRun ==
    /\ kind = "none"
    /\ continue_on_error = FALSE
    /\ attempt = 0
    /\ idx = 0
    /\ results = << >>
    /\ failed_indices = {}
    /\ result = NoResult
    /\ last_error = None
    /\ sleeps = 0
    /\ trace = << >>
    /\ last_call = NoCall

\* The paths of the local backend: state file, its temporary sibling, lock file.
Paths == {"state", "tmp", "lock"}
NoRet == [n |-> 0, op |-> "none", res |-> "Ok", value |-> << >>]

\* No file of the local backend exists and no call on them was made.
NoFile ==
    /\ dir = [f \in Paths |-> 0]
    /\ inodes = << >>
    /\ fpc = [p \in Procs |-> "idle"]
    /\ fd = [p \in Procs |-> [ino |-> 0, off |-> 0]]
    /\ fret = NoRet

\* The hasher has been given nothing.
NoHashes == [a |-> << >>, b |-> << >>, ha |-> << >>, hb |-> << >>, done |-> FALSE]

\* No client has touched the lock.
NoClient ==
    /\ lpc = [p \in Procs |-> "idle"]
    /\ seen = [p \in Procs |-> None]
    /\ granted = [p \in Procs |-> None]
    /\ next_lock = 1

\* -------------------------------------------- the diff engine and the planner
\* compute_diff and from_diff applied to every document, stored state and list
\* of the domains: either called directly on the list, or by cmd_plan, which puts
\* the account's listing through list_project_pods first.
DiffInit ==
    /\ config \in Configs
    /\ state \in StoredStates
    /\ observed \in ObservedLists
    /\ pc = "input"
    /\ diff = EmptyDiff
    /\ plan = EmptyPlan
    /\ provider = {observed[i] : i \in 1..Len(observed)}
    /\ next_id = FirstFreshId
    /\ failures = 0
    /\ store_state = None
    /\ store_lock = None
    /\ now = 0
    /\ NoRun
    /\ NoClient
    /\ NoFile
    /\ hashes = NoHashes

ComputeDiff ==
    /\ pc = "input"
    /\ diff' = compute_diff(config, state, observed)
    /\ pc' = "diffed"
    /\ UNCHANGED << config, state, observed, plan, envVars, runVars, ghostVars, lockVars, fileVars, hashes >>

\* cmd_plan up to its diff: the account's pods are listed through
\* list_project_pods and the result is diffed.
PlanDiff ==
    /\ pc = "input"
    /\ kind' = "plan"
    /\ observed' = list_project_pods(observed, PROJECT, ENVIRONMENT)
    /\ diff' = compute_diff(config, state, observed')
    /\ pc' = "diffed"
    /\ UNCHANGED << config, state, plan, envVars, continue_on_error, attempt, idx,
                    results, failed_indices, result, last_error, sleeps, ghostVars,
                    lockVars, fileVars, hashes >>

FromDiff ==
    /\ pc = "diffed"
    /\ plan' = from_diff(diff, config, hash_config(config))
    /\ pc' = "planned"
    /\ UNCHANGED << config, state, observed, diff, envVars, runVars, ghostVars, lockVars, fileVars, hashes >>

DiffNext == ComputeDiff \/ PlanDiff \/ FromDiff

SpecDiff == DiffInit /\ [][DiffNext]_vars

\* Positions of the observed list whose pod carries the local name.
Named(name) == {j \in 1..Len(observed) : observed[j].pod_name = Some(name)}
\* Positions of the diff list that are about the name.
DiffsOf(name) == {k \in 1..Len(diff.diffs) : diff.diffs[k].name = name}
\* The record the stored state holds for the name, if any.
RecordOf(name) == IF IsSome(state) THEN get_pod(Unwrap(state), name) ELSE None

\* C9: a desired pod all of whose observed pods carry a spec hash other than its
\* current hash (or no spec_hash tag) is classified Update when the stored state
\* has a record for its name and Drift when the state is absent or has none.
C9_UpdateWithRecordDriftWithout ==
    pc # "input" =>
        \A i \in 1..Len(config.pods) :
            LET p == config.pods[i] IN
            (/\ Named(p.name) # {}
             /\ \A j \in Named(p.name) : observed[j].spec_hash # Some(hash_pod(p)))
            => \A k \in DiffsOf(p.name) :
                  diff.diffs[k].diff_type =
                      IF IsSome(RecordOf(p.name)) THEN "Update" ELSE "Drift"

\* C10 as stated: one diff per desired pod, NoChange iff some observed pod with
\* that name has the pod's current hash, Create iff none has that name, and the
\* Create of a pod the state has a record of carries the record's provider id.
C10_NoChangeIffSomeObservedMatches ==
    pc # "input" =>
        \A i \in 1..Len(config.pods) :
            LET p == config.pods[i] IN
            /\ Cardinality(DiffsOf(p.name)) = 1
            /\ \A k \in DiffsOf(p.name) :
                  /\ diff.diffs[k].diff_type = "NoChange"
                       <=> \E j \in Named(p.name) :
                              observed[j].spec_hash = Some(hash_pod(p))
                  /\ diff.diffs[k].diff_type = "Create" <=> Named(p.name) = {}

\* C10: compute_diff emits exactly one diff per desired pod; it is NoChange iff
\* the last pod of the observed list with that local name has spec_hash equal to
\* the pod's current hash, whatever the stored state holds; it is Create iff no
\* observed pod has that local name, and then, when the stored state has a
\* record for the name, the detail's old value is "missing (was <the record's
\* provider id>)" and old_hash is the record's config_hash.
C10_OneDiffPerDesiredPod ==
    pc # "input" =>
        \A i \in 1..Len(config.pods) :
            LET p == config.pods[i]
                last == SeqMax(Named(p.name))
                rec == RecordOf(p.name)
            IN
            /\ Cardinality(DiffsOf(p.name)) = 1
            /\ \A k \in DiffsOf(p.name) :
                  LET d == diff.diffs[k] IN
                  /\ d.diff_type = "NoChange"
                       <=> (Named(p.name) # {}
                            /\ observed[last].spec_hash = Some(hash_pod(p)))
                  /\ d.diff_type = "Create" <=> Named(p.name) = {}
                  /\ (Named(p.name) = {} /\ IsSome(rec))
                       => /\ Len(d.details) = 1
                          /\ d.details[1].old_value
                               = Some(format_missing_was(Unwrap(rec).runpod_id))
                          /\ d.old_hash = Some(Unwrap(rec).config_hash)

\* Two observed pods are named web and only the later one has the current hash:
\* web is NoChange; api is not observed and the state's record of it names p9.
C10_Witness ==
    /\ pc = "diffed"
    /\ Len(config.pods) = 2
    /\ Cardinality(Named(config.pods[1].name)) = 2
    /\ \E j \in Named(config.pods[1].name) :
          observed[j].spec_hash # Some(hash_pod(config.pods[1]))
    /\ diff.diffs[1].diff_type = "NoChange"
    /\ IsSome(RecordOf(config.pods[2].name))
    /\ diff.diffs[2].diff_type = "Create"
    /\ diff.diffs[2].details[1].old_value = Some("missing (was p9)")

\* Positions of the observed list that hold a pod with the project's tags whose
\* local name no pod of the document bears.
OrphanPositions ==
    {j \in 1..Len(observed) :
        /\ observed[j].project = Some(PROJECT)
        /\ observed[j].environment = Some(ENVIRONMENT)
        /\ IsSome(observed[j].pod_name)
        /\ \A i \in 1..Len(config.pods) :
              config.pods[i].name # Unwrap(observed[j].pod_name)}

\* C11: every observed pod with the project's tags whose local name is not in
\* the document has exactly one diff that names its provider id, a Delete under
\* its local name, and the plan has a DeletePod for that id; no pod of the
\* document has a Delete diff.
C11_OrphanDetection ==
    pc # "input" =>
        /\ \A j \in OrphanPositions :
              LET o == observed[j]
                  mine == {k \in 1..Len(diff.diffs) :
                              \E n \in 1..Len(diff.diffs[k].details) :
                                 diff.diffs[k].details[n].old_value = Some(o.id)}
              IN /\ Cardinality(mine) = 1
                 /\ \A k \in mine : /\ diff.diffs[k].diff_type = "Delete"
                                     /\ diff.diffs[k].name = Unwrap(o.pod_name)
                 /\ pc = "planned"
                      => \E a \in 1..Len(plan.actions) :
                            /\ plan.actions[a].action_type = "DeletePod"
                            /\ plan.actions[a].runpod_id = Some(o.id)
        /\ \A i \in 1..Len(config.pods) : \A k \in DiffsOf(config.pods[i].name) :
              diff.diffs[k].diff_type # "Delete"

\* Two orphans with one local name are listed: two Delete diffs and two DeletePod
\* actions, one per provider id.
C11_Witness ==
    /\ pc = "planned"
    /\ Cardinality(OrphanPositions) = 2
    /\ observed[1].pod_name = observed[2].pod_name
    /\ diff.deletes = 2
    /\ {plan.actions[a].runpod_id : a \in {a \in 1..Len(plan.actions) :
                                             plan.actions[a].action_type = "DeletePod"}}
         = {Some(observed[1].id), Some(observed[2].id)}

Managed(q) == q.project = Some(PROJECT) /\ q.environment = Some(ENVIRONMENT)

\* Ids of the pods of the account that lack those tags.
UnmanagedIds == {q.id : q \in {r \in provider : ~Managed(r)}}

C13_EmptyPlanIffNoChanges ==
    pc = "planned" =>
        (plan.actions = << >>
            <=> \A k \in 1..Len(diff.diffs) :
                   diff.diffs[k].diff_type \notin {"Create", "Update", "Drift", "Delete"})

\* The desired pod is observed with its current hash: one NoChange, no action.
C13_Witness ==
    /\ pc = "planned"
    /\ Len(observed) >= 1
    /\ Len(diff.diffs) = 1
    /\ diff.diffs[1].diff_type = "NoChange"
    /\ diff.unchanged = 1
    /\ plan.actions = << >>


\* --------------------------------------------------------------- lock blob
\* LockInfo::new at time t; the lock_id stands for a fresh UUID.
LockInfo(lock_id, holder, t) ==
    [lock_id |-> lock_id, holder |-> holder, acquired_at |-> t,
     expires_at |-> t + LOCK_EXPIRY_SECS]

is_expired(lock, t) == t > lock.expires_at

\* A lock another process took at time 0.
OtherLock == LockInfo("L0", "other", 0)

\* The LockInfo a running command holds: cmd_apply, cmd_reconcile and cmd_destroy
\* call acquire_lock nowhere.
RunLock == None

\* The running command holds the store's current, unexpired lock.
HoldsLock ==
    /\ IsSome(RunLock)
    /\ store_lock = RunLock
    /\ ~is_expired(Unwrap(store_lock), now)

\* ------------------------------------------------------- commands: the start
\* What list_project_pods can return: the provider lists its pods in any order.
Listings == {list_project_pods(all, PROJECT, ENVIRONMENT) : all \in Perms(provider)}

\* StateStore::load: None when there is no blob, else the parsed blob.
load == IF IsSome(store_state) THEN Some(from_json(Unwrap(store_state))) ELSE None

\* StateStore::exists
exists == IsSome(store_state)

\* state_store.load().unwrap_or_else(DeploymentState::new)
LoadOrNew == IF IsSome(load) THEN load ELSE Some(NewDeploymentState)

\* What the provider holds before the first command.
InitialProviders ==
    { {}, {ObsWebV1}, {ObsWebBare}, {ObsWebV1, ObsOld}, {ObsWebV1, ObsWebBare},
      {ObsForeign, ObsUntagged} }

Init ==
    /\ config \in Configs
    /\ provider \in InitialProviders
    /\ store_state \in {None, Some(to_json(StateWebV1))}
    /\ store_lock \in {None, Some(OtherLock)}
    /\ next_id = FirstFreshId
    /\ failures = 0
    /\ now = 0
    /\ pc = "idle"
    /\ state = None
    /\ observed = << >>
    /\ diff = EmptyDiff
    /\ plan = EmptyPlan
    /\ NoRun
    /\ NoClient
    /\ NoFile
    /\ hashes = NoHashes

\* A command returns: its verdict joins the trace.
Return(k, ok, error, has_drift) ==
    /\ trace' = Append(trace, [kind |-> k, ok |-> ok, error |-> error,
                               has_drift |-> has_drift])
    /\ pc' = "idle"

\* A save or a provisioner call is made, by the run after Len(trace) ended ones.
Call(op, id) ==
    last_call' = [op |-> op, kind |-> kind, id |-> id, locked |-> HoldsLock,
                  plan_ok |-> plan.passes_guardrails, run |-> Len(trace) + 1]

CanStart == pc = "idle" /\ Len(trace) < MaxRuns

\* A fresh run of command k over (st, obs, d, p).
Begin(k, coe, st, obs, d, p) ==
    /\ kind' = k
    /\ continue_on_error' = coe
    /\ state' = st
    /\ observed' = obs
    /\ diff' = d
    /\ plan' = p
    /\ attempt' = 0
    /\ idx' = 0
    /\ results' = << >>
    /\ failed_indices' = {}
    /\ result' = NoResult
    /\ last_error' = None
    /\ sleeps' = 0

\* The listing with which a command starts fails: the command returns the error.
ListFails ==
    /\ CanStart
    /\ failures < MaxFailures
    /\ failures' = failures + 1
    /\ \E k \in {"reconcile", "apply", "execute", "destroy", "drift"} :
          /\ Begin(k, FALSE, None, << >>, EmptyDiff, EmptyPlan)
          /\ Return(k, FALSE, "NetworkError", FALSE)
    /\ UNCHANGED << config, provider, next_id, store_state, store_lock, now,
                    last_call, lockVars, fileVars, hashes >>

\* Reconciler::reconcile up to its loop: load, list once, max_attempts attempts.
Reconcile ==
    /\ CanStart
    /\ \E obs \in Listings :
          Begin("reconcile", TRUE, LoadOrNew, obs, EmptyDiff, EmptyPlan)
    /\ pc' = "attempt"
    /\ UNCHANGED << config, envVars, ghostVars, lockVars, fileVars, hashes >>

\* The entry of PlanExecutor::execute.
execute_entry(p) ==
    IF p.actions = << >> THEN "empty"
    ELSE IF ~p.passes_guardrails THEN "aborted"
    ELSE "loop"

\* A loop that goes on to its next attempt whatever the last one returned.
after_attempt_no_break(success, n) ==
    IF n >= DEFAULT_MAX_ATTEMPTS THEN "save" ELSE "attempt"

\* Where reconcile's loop goes after its n-th attempt: out of the loop on a
\* success (break) or after the last attempt, else to the next attempt.
after_attempt(success, n) ==
    IF success \/ n >= DEFAULT_MAX_ATTEMPTS THEN "save" ELSE "attempt"

\* One pass of reconcile's loop up to the executor's loop: reconcile_once's diff,
\* plan and guardrail check, and the arm of the match its return selects.
ReconcileOnce ==
    /\ pc = "attempt"
    /\ LET n == attempt + 1
           d == compute_diff(config, state, observed)
           p == from_diff(d, config, hash_config(config))
       IN /\ attempt' = n
          /\ diff' = d
          /\ IF ~has_changes(d)
             THEN \* Ok(r) with r.success: break
                  /\ result' = [success |-> TRUE, errors |-> << >>]
                  /\ pc' = after_attempt(TRUE, n)
                  /\ UNCHANGED << plan, last_error, sleeps >>
             ELSE /\ plan' = p
                  /\ IF ~p.passes_guardrails
                     THEN \* Err(Aborted): the Err arm
                          /\ result' = [result EXCEPT !.errors =
                                           Append(@, << "Attempt", n, "Aborted" >>)]
                          /\ last_error' = Some("Aborted")
                          /\ sleeps' = IF n < DEFAULT_MAX_ATTEMPTS THEN sleeps + 1 ELSE sleeps
                          /\ pc' = after_attempt(FALSE, n)
                     ELSE /\ pc' = "exec"
                          /\ UNCHANGED << result, last_error, sleeps >>
    /\ idx' = 0
    /\ results' = << >>
    /\ failed_indices' = {}
    /\ UNCHANGED << config, state, observed, kind, continue_on_error, envVars,
                    ghostVars, lockVars, fileVars, hashes >>


\* cmd_apply --auto-approve up to the executor's loop: validate, load, list,
\* diff, plan.
Apply ==
    /\ CanStart
    /\ IF ~validate(config)
       THEN \* load_config_and_state returns the validation error
            /\ Begin("apply", FALSE, None, << >>, EmptyDiff, EmptyPlan)
            /\ Return("apply", FALSE, "ValidationError", FALSE)
       ELSE \E obs \in Listings, coe \in BOOLEAN :
               LET d == compute_diff(config, LoadOrNew, obs)
                   p == from_diff(d, config, hash_config(config))
               IN /\ Begin("apply", coe, LoadOrNew, obs, d, p)
                  /\ IF p.actions = << >>
                     THEN Return("apply", TRUE, "none", FALSE)
                     ELSE IF execute_entry(p) = "aborted"
                     THEN Return("apply", FALSE, "Aborted", FALSE)
                     ELSE pc' = "exec" /\ UNCHANGED trace
    /\ UNCHANGED << config, envVars, last_call, lockVars, fileVars, hashes >>

\* PlanExecutor::execute called on a plan from_diff built and a loaded state, up
\* to its loop.
Execute ==
    /\ CanStart
    /\ \E obs \in Listings, coe \in BOOLEAN :
          LET d == compute_diff(config, LoadOrNew, obs)
              p == from_diff(d, config, hash_config(config))
          IN /\ Begin("execute", coe, LoadOrNew, obs, d, p)
             /\ CASE execute_entry(p) = "empty" -> Return("execute", TRUE, "none", FALSE)
                  [] execute_entry(p) = "aborted" -> Return("execute", FALSE, "Aborted", FALSE)
                  [] OTHER -> pc' = "exec" /\ UNCHANGED trace
    /\ UNCHANGED << config, envVars, last_call, lockVars, fileVars, hashes >>

\* ------------------------------------------------------ the executor's loop
Action == plan.actions[idx + 1]

\* An executor that takes no dependency for failed.
deps_never_failed == FALSE

deps_failed == \E k \in 1..Len(Action.dependencies) :
                  Action.dependencies[k] \in failed_indices

ActionResult(index, success, pod_id, error) ==
    [index |-> index, success |-> success, pod_id |-> pod_id, error |-> error]

SKIPPED == "Skipped due to dependency failure"

\* A loop that never breaks on a failure.
advance_never_breaks(success) ==
    /\ idx' = idx + 1
    /\ pc' = IF idx + 1 = Len(plan.actions) THEN "summary" ELSE "exec"

\* The loop goes on to the next action, or ends.
Advance(success) ==
    /\ idx' = idx + 1
    /\ pc' = IF idx + 1 = Len(plan.actions) \/ (~success /\ ~continue_on_error)
             THEN "summary" ELSE "exec"

InLoop == pc = "exec" /\ idx < Len(plan.actions)

\* An action with a failed dependency is skipped.
ExecuteSkip ==
    /\ InLoop
    /\ deps_failed
    /\ results' = Append(results, ActionResult(idx, FALSE, None, Some(SKIPPED)))
    /\ failed_indices' = failed_indices \cup {idx}
    /\ idx' = idx + 1
    /\ pc' = IF idx + 1 = Len(plan.actions) THEN "summary" ELSE "exec"
    /\ UNCHANGED << config, state, observed, diff, plan, kind, continue_on_error,
                    attempt, result, last_error, sleeps, envVars, ghostVars, lockVars, fileVars, hashes >>

\* execute_create: the provider creates the pod, or fails.
ExecuteCreate ==
    /\ InLoop
    /\ ~deps_failed
    /\ Action.action_type = "CreatePod"
    /\ LET pod_config == Unwrap(Action.pod_config)
           spec_hash == Unwrap(Action.new_hash)
           id == PodId(next_id)
       IN \/ /\ Cardinality(provider) < MaxPods
             /\ next_id - FirstFreshId < MaxCreates
             /\ provider' = provider \cup {CreatedPod(id, pod_config, spec_hash)}
             /\ next_id' = next_id + 1
             /\ state' = Some(set_pod(Unwrap(state),
                                [PodState(Action.resource_name, id, spec_hash)
                                   EXCEPT !.gpu_count = pod_config.count,
                                          !.image = pod_config.image]))
             /\ results' = Append(results, ActionResult(idx, TRUE, Some(id), None))
             /\ Advance(TRUE)
             /\ UNCHANGED << failures, failed_indices >>
          \/ /\ failures < MaxFailures
             /\ failures' = failures + 1
             /\ results' = Append(results, ActionResult(idx, FALSE, None, Some("ApiRequestFailed")))
             /\ failed_indices' = failed_indices \cup {idx}
             /\ Advance(FALSE)
             /\ UNCHANGED << provider, next_id, state >>
    /\ Call("create", Some(Action.resource_name))
    /\ UNCHANGED << config, observed, diff, plan, kind, continue_on_error, attempt,
                    result, last_error, sleeps, store_state, store_lock, now, trace,
                    lockVars, fileVars, hashes >>

\* What the provider's endpoint may answer to one request: data, no answer
\* ("network"), an HTTP status that is not a success, or a 200 whose body has
\* GraphQL errors, no data, or does not parse.
Responses == {"data", "network", "429", "401", "403", "404", "500", "errors",
              "no_data", "unparseable"}

\* RunPodClient::execute_once: the error a response is turned into, "none" for
\* data.  An ApiRequestFailed carries the status, which is kept for 404.
execute_once(response) ==
    CASE response = "data" -> "none"
      [] response = "network" -> "NetworkError"
      [] response = "429" -> "RateLimited"
      [] response \in {"401", "403"} -> "AuthenticationFailed"
      [] response = "404" -> "ApiRequestFailed 404"
      [] response \in {"500", "errors"} -> "ApiRequestFailed"
      [] OTHER -> "InvalidResponse"

\* execute_delete's test of a terminate error: was the pod already deleted?
already_deleted(e) == e = "PodNotFound"

\* The answers other than data that the model lets terminate_pod(pod_id) get: a
\* server error, and a 404 when the provider holds no pod of that id.
TerminateFailures(pod_id) ==
    {"500"} \cup IF \E q \in provider : q.id = pod_id THEN {} ELSE {"404"}

\* The pod id execute_delete terminates: the action's, else the state record's.
delete_pod_id(action, st) ==
    IF IsSome(action.runpod_id) THEN action.runpod_id
    ELSE IF IsSome(get_pod(st, action.resource_name))
    THEN Some(Unwrap(get_pod(st, action.resource_name)).runpod_id)
    ELSE None

\* execute_delete with no pod id: the record is dropped, no call is made.
ExecuteDeleteNoId ==
    /\ InLoop
    /\ ~deps_failed
    /\ Action.action_type = "DeletePod"
    /\ delete_pod_id(Action, Unwrap(state)) = None
    /\ state' = Some(remove_pod(Unwrap(state), Action.resource_name))
    /\ results' = Append(results, ActionResult(idx, TRUE, None, None))
    /\ Advance(TRUE)
    /\ UNCHANGED << config, observed, diff, plan, kind, continue_on_error, attempt,
                    failed_indices, result, last_error, sleeps, envVars, ghostVars,
                    lockVars, fileVars, hashes >>

\* execute_delete with a pod id: terminate_pod answers Ok (a pod with that id, if
\* the provider has one, is gone) or the error the client makes of a failure.
ExecuteDelete ==
    /\ InLoop
    /\ ~deps_failed
    /\ Action.action_type = "DeletePod"
    /\ delete_pod_id(Action, Unwrap(state)) # None
    /\ LET pod_id == delete_pod_id(Action, Unwrap(state))
       IN /\ \/ /\ provider' = {q \in provider : q.id # Unwrap(pod_id)}
                /\ state' = Some(remove_pod(Unwrap(state), Action.resource_name))
                /\ results' = Append(results, ActionResult(idx, TRUE, pod_id, None))
                /\ Advance(TRUE)
                /\ UNCHANGED << failures, failed_indices >>
             \/ /\ failures < MaxFailures
                /\ failures' = failures + 1
                /\ \E response \in TerminateFailures(Unwrap(pod_id)) :
                      LET e == execute_once(response)
                      IN IF already_deleted(e)
                         THEN /\ state' = Some(remove_pod(Unwrap(state), Action.resource_name))
                              /\ results' = Append(results, ActionResult(idx, TRUE, pod_id, None))
                              /\ Advance(TRUE)
                              /\ UNCHANGED failed_indices
                         ELSE /\ results' = Append(results, ActionResult(idx, FALSE, pod_id, Some(e)))
                              /\ failed_indices' = failed_indices \cup {idx}
                              /\ Advance(FALSE)
                              /\ UNCHANGED state
                /\ UNCHANGED provider
          /\ Call("terminate", pod_id)
    /\ UNCHANGED << config, observed, diff, plan, kind, continue_on_error, attempt,
                    result, last_error, sleeps, next_id, store_state, store_lock, now,
                    trace, lockVars, fileVars, hashes >>


\* The failed count of the summary: unsuccessful results that are not skips.
failed_count(rs) ==
    Cardinality({i \in 1..Len(rs) : ~rs[i].success /\ rs[i].error # Some(SKIPPED)})

\* The errors reconcile_once collects from an ExecutionResult.
collect_errors(rs) ==
    LET bad == SelectSeq(rs, LAMBDA r : ~r.success /\ IsSome(r.error))
        head == IF failed_count(rs) = 0 THEN << >>
                ELSE << << failed_count(rs), "of", Len(rs), "actions failed" >> >>
    IN head \o [i \in 1..Len(bad) |-> Unwrap(bad[i].error)]

\* The history entry of a run of plan p that ended with the results rs.
history_entry(p, rs) ==
    LET failed == failed_count(rs)
        success == failed = 0
    IN HistoryEntry(p.config_hash,
                    [i \in 1..Len(p.actions) |-> p.actions[i].resource_name],
                    success,
                    IF success THEN None ELSE Some(<< failed, "actions failed" >>))

\* A bookkeeping that takes the plan's hash only from a run without a failure.
bookkeeping_on_success(st, p, rs) ==
    IF failed_count(rs) = 0
    THEN [add_history(st, history_entry(p, rs)) EXCEPT !.config_hash = p.config_hash]
    ELSE add_history(st, history_entry(p, rs))

\* What execute does to the state after its loop: the history entry is added
\* and config_hash becomes the plan's hash.
bookkeeping(st, p, rs) ==
    [add_history(st, history_entry(p, rs)) EXCEPT !.config_hash = p.config_hash]

\* After the loop: summary, history entry, config_hash; then what the caller does
\* with the ExecutionResult.
ExecuteSummary ==
    /\ pc = "summary"
    /\ LET failed == failed_count(results)
           success == failed = 0
           st == bookkeeping(Unwrap(state), plan, results)
       IN /\ state' = Some(st)
          /\ CASE kind = "execute" ->
                    /\ Return("execute", TRUE, IF success THEN "none" ELSE "ActionsFailed", FALSE)
                    /\ UNCHANGED result
               [] kind = "apply" ->
                    /\ pc' = "save"
                    /\ UNCHANGED << result, trace >>
               [] OTHER ->
                    \* reconcile: the Ok arm
                    /\ result' = [success |-> success, errors |-> collect_errors(results)]
                    /\ pc' = after_attempt(success, attempt)
                    /\ UNCHANGED trace
    /\ UNCHANGED << config, observed, diff, plan, kind, continue_on_error, attempt,
                    idx, results, failed_indices, last_error, sleeps, envVars,
                    last_call, lockVars, fileVars, hashes >>

\* A return in which a failed save takes the place of the attempts' verdict.
masked_return(res, err) ==
    IF \E i \in 1..Len(res.errors) : res.errors[i] = "Failed to save state"
    THEN [ok |-> FALSE, error |-> "S3Error"]
    ELSE IF ~res.success /\ IsSome(err)
    THEN [ok |-> FALSE, error |-> Unwrap(err)]
    ELSE [ok |-> TRUE, error |-> IF res.success THEN "none" ELSE "ActionsFailed"]

\* What reconcile returns after the save: Err(last_error) when the result is not a
\* success and an attempt returned an error, else Ok(result).
reconcile_return(res, err) ==
    IF ~res.success /\ IsSome(err)
    THEN [ok |-> FALSE, error |-> Unwrap(err)]
    ELSE [ok |-> TRUE, error |-> IF res.success THEN "none" ELSE "ActionsFailed"]

\* state_store.save(&state) and the return of reconcile or of cmd_apply.
Save ==
    /\ pc = "save"
    /\ \E saved \in BOOLEAN :
          /\ IF saved
             THEN store_state' = Some(to_json(Unwrap(state))) /\ UNCHANGED failures
             ELSE /\ failures < MaxFailures
                  /\ failures' = failures + 1
                  /\ UNCHANGED store_state
          /\ IF kind = "reconcile"
             THEN LET res == IF saved THEN result
                             ELSE [result EXCEPT !.errors =
                                      Append(@, "Failed to save state")]
                      ret == reconcile_return(res, last_error)
                  IN /\ result' = res
                     /\ Return("reconcile", ret.ok, ret.error, FALSE)
             ELSE /\ UNCHANGED result
                  /\ Return("apply", saved, IF saved THEN "none" ELSE "S3Error", FALSE)
    /\ Call("save", None)
    /\ UNCHANGED << config, state, observed, diff, plan, kind, continue_on_error,
                    attempt, idx, results, failed_indices, last_error, sleeps,
                    provider, next_id, store_lock, now, lockVars, fileVars, hashes >>

\* cmd_destroy --auto-approve up to its loop: validate, list.
Destroy ==
    /\ CanStart
    /\ IF ~validate(config)
       THEN /\ Begin("destroy", FALSE, None, << >>, EmptyDiff, EmptyPlan)
            /\ Return("destroy", FALSE, "ValidationError", FALSE)
       ELSE \E obs \in Listings :
               /\ Begin("destroy", FALSE, None, obs, EmptyDiff, EmptyPlan)
               /\ IF obs = << >>
                  THEN Return("destroy", TRUE, "none", FALSE)
                  ELSE pc' = "destroy" /\ UNCHANGED trace
    /\ UNCHANGED << config, envVars, last_call, lockVars, fileVars, hashes >>

\* One pass of cmd_destroy's loop: terminate_pod, its error only logged.
DestroyPod ==
    /\ pc = "destroy"
    /\ idx < Len(observed)
    /\ \/ /\ provider' = {q \in provider : q.id # observed[idx + 1].id}
          /\ UNCHANGED failures
       \/ /\ failures < MaxFailures
          /\ failures' = failures + 1
          /\ UNCHANGED provider
    /\ Call("terminate", Some(observed[idx + 1].id))
    /\ idx' = idx + 1
    /\ UNCHANGED << config, pc, state, observed, diff, plan, kind, continue_on_error,
                    attempt, results, failed_indices, result, last_error, sleeps,
                    next_id, store_state, store_lock, now, trace, lockVars, fileVars, hashes >>

\* After the loop: state_store.delete(), which removes the state blob and the
\* lock blob.
DestroyFinish ==
    /\ pc = "destroy"
    /\ idx = Len(observed)
    /\ store_state' = None
    /\ store_lock' = None
    /\ Call("delete", None)
    /\ Return("destroy", TRUE, "none", FALSE)
    /\ UNCHANGED << config, state, observed, diff, plan, runVars, provider, next_id,
                    failures, now, lockVars, fileVars, hashes >>

\* A drift check that persists the state it diffed against.
DriftAndSave ==
    /\ CanStart
    /\ \E obs \in Listings :
          LET d == compute_diff(config, load, obs)
          IN /\ Begin("drift", FALSE, load, obs, d, EmptyPlan)
             /\ Return("drift", TRUE, "none", has_changes(d))
    /\ store_state' = LoadOrNew
    /\ UNCHANGED << config, provider, next_id, failures, store_lock, now, last_call,
                    lockVars, fileVars, hashes >>

\* Reconciler::check_drift: load, list, diff, report.
Drift ==
    /\ CanStart
    /\ \E obs \in Listings :
          LET d == compute_diff(config, load, obs)
          IN /\ Begin("drift", FALSE, load, obs, d, EmptyPlan)
             /\ Return("drift", TRUE, "none", has_changes(d))
    /\ UNCHANGED << config, envVars, last_call, lockVars, fileVars, hashes >>

Next ==
    \/ ListFails
    \/ Reconcile
    \/ ReconcileOnce
    \/ Apply
    \/ Execute
    \/ ExecuteSkip
    \/ ExecuteCreate
    \/ ExecuteDeleteNoId
    \/ ExecuteDelete
    \/ ExecuteSummary
    \/ Save
    \/ Destroy
    \/ DestroyPod
    \/ DestroyFinish
    \/ Drift

Spec == Init /\ [][Next]_vars


\* ------------------------------------------------- the lock blob's clients
\* Two processes call acquire_lock and release_lock on one store.  Each call is
\* a read of the lock blob followed by a write or a delete of it; the calls of
\* the two processes interleave between those steps, and the clock runs.
LockId(n) == << "L1", "L2", "L3", "L4", "L5" >>[n]

LockInit ==
    /\ config = DeployConfig(<< WebV1 >>, None)
    /\ provider = {}
    /\ store_state = None
    /\ store_lock \in {None, Some(OtherLock)}
    /\ next_id = FirstFreshId
    /\ failures = 0
    /\ now = 0
    /\ pc = "idle"
    /\ state = None
    /\ observed = << >>
    /\ diff = EmptyDiff
    /\ plan = EmptyPlan
    /\ NoRun
    /\ NoClient
    /\ NoFile
    /\ hashes = NoHashes

nonLockVars == << config, pc, state, observed, diff, plan, provider, next_id,
                  failures, store_state, runVars, ghostVars, fileVars, hashes >>

\* acquire_lock: read_lock_file and the is_expired test.
AcquireRead(p) ==
    /\ lpc[p] \in {"idle", "denied"}
    /\ seen' = [seen EXCEPT ![p] = store_lock]
    /\ lpc' = [lpc EXCEPT ![p] =
                 IF IsSome(store_lock) /\ ~is_expired(Unwrap(store_lock), now)
                 THEN "denied"      \* Err(LockedByOther)
                 ELSE "acquiring"]
    /\ UNCHANGED << store_lock, now, granted, next_lock, nonLockVars >>

\* acquire_lock: LockInfo::new and write_lock_file; Ok(lock_info).
AcquireWrite(p) ==
    /\ lpc[p] = "acquiring"
    /\ next_lock <= MaxLocks
    /\ LET lock_info == LockInfo(LockId(next_lock), p, now)
       IN /\ store_lock' = Some(lock_info)
          /\ granted' = [granted EXCEPT ![p] = Some(lock_info)]
    /\ next_lock' = next_lock + 1
    /\ lpc' = [lpc EXCEPT ![p] = "held"]
    /\ UNCHANGED << now, seen, nonLockVars >>

\* A release that goes on to delete whatever lock it read.
ReleaseAlways(p) ==
    /\ lpc[p] = "held"
    /\ seen' = [seen EXCEPT ![p] = store_lock]
    /\ lpc' = [lpc EXCEPT ![p] = "releasing"]
    /\ UNCHANGED << store_lock, now, granted, next_lock, nonLockVars >>

\* release_lock(lock_id) with the id the process was granted: read_lock_file and
\* the comparison of ids.
ReleaseRead(p) ==
    /\ lpc[p] = "held"
    /\ seen' = [seen EXCEPT ![p] = store_lock]
    /\ IF IsSome(store_lock) /\ Unwrap(store_lock).lock_id = Unwrap(granted[p]).lock_id
       THEN /\ lpc' = [lpc EXCEPT ![p] = "releasing"]
            /\ UNCHANGED granted
       ELSE /\ lpc' = [lpc EXCEPT ![p] = "idle"]
            /\ granted' = [granted EXCEPT ![p] = None]
    /\ UNCHANGED << store_lock, now, next_lock, nonLockVars >>

\* release_lock: delete_lock_file.
ReleaseDelete(p) ==
    /\ lpc[p] = "releasing"
    /\ store_lock' = None
    /\ granted' = [granted EXCEPT ![p] = None]
    /\ lpc' = [lpc EXCEPT ![p] = "idle"]
    /\ UNCHANGED << now, seen, next_lock, nonLockVars >>

\* Time passes.
Tick ==
    /\ now < MaxTicks * TickSecs
    /\ now' = now + TickSecs
    /\ UNCHANGED << store_lock, lockVars, nonLockVars >>

LockNext ==
    \/ \E p \in Procs : AcquireRead(p)
    \/ \E p \in Procs : AcquireWrite(p)
    \/ \E p \in Procs : ReleaseRead(p)
    \/ \E p \in Procs : ReleaseDelete(p)
    \/ Tick

SpecLock == LockInit /\ [][LockNext]_vars

\* C1: two acquire_lock calls that run concurrently while no unexpired lock
\* exists never both succeed: no two processes hold, at the same time, LockInfos
\* they were granted and whose expiry has not passed.
C1_LockExclusivity ==
    \A p, q \in Procs :
        (p # q /\ IsSome(granted[p]) /\ IsSome(granted[q]))
        => (is_expired(Unwrap(granted[p]), now) \/ is_expired(Unwrap(granted[q]), now))

\* C16: a release_lock call that reads no lock blob, or one with another lock_id
\* than the caller's, ends with the blob as it was; only a call that read its own
\* lock_id goes on to delete, and after its delete no lock blob is there
\* (is_locked is false).
C16_LockSelfRelease ==
    [][\A p \in Procs :
          /\ (lpc[p] = "held" /\ lpc'[p] = "idle")
               => /\ store_lock' = store_lock
                  /\ \/ store_lock = None
                     \/ Unwrap(store_lock).lock_id # Unwrap(granted[p]).lock_id
          /\ (lpc[p] = "held" /\ lpc'[p] = "releasing")
               => /\ IsSome(store_lock)
                  /\ Unwrap(store_lock).lock_id = Unwrap(granted[p]).lock_id
                  /\ store_lock' = store_lock
          /\ (lpc[p] = "releasing" /\ lpc'[p] = "idle")
               => store_lock' = None]_vars

\* One process released with an id that was not the stored one and left the
\* other's lock in place; the other then released that lock and the blob is gone.
C16_Witness ==
    \E p, q \in Procs :
        /\ p # q
        /\ lpc[p] = "idle" /\ lpc[q] = "idle"
        /\ granted[p] = None /\ granted[q] = None
        /\ IsSome(seen[q])
        /\ Unwrap(seen[q]).holder = q
        /\ seen[p] = seen[q]
        /\ store_lock = None

\* ------------------------------------------------------------ forced unlock
\* `state unlock --force` run by a process that holds no lock, next to the
\* acquire_lock and release_lock calls of the clients.
\* get_lock_info: with no lock blob the command returns at once.
ForceRead(p) ==
    /\ lpc[p] \in {"idle", "denied"}
    /\ seen' = [seen EXCEPT ![p] = store_lock]
    /\ lpc' = [lpc EXCEPT ![p] = IF IsSome(store_lock) THEN "force_release"
                                  ELSE "unlocked"]
    /\ UNCHANGED << store_lock, now, granted, next_lock, nonLockVars >>

\* release_lock(&lock_info.lock_id): its read of the lock blob and the
\* comparison with the id get_lock_info returned.
ForceReleaseRead(p) ==
    /\ lpc[p] = "force_release"
    /\ lpc' = [lpc EXCEPT ![p] =
                 IF IsSome(store_lock)
                    /\ Unwrap(store_lock).lock_id = Unwrap(seen[p]).lock_id
                 THEN "force_delete" ELSE "unlocked"]
    /\ UNCHANGED << store_lock, now, seen, granted, next_lock, nonLockVars >>

\* release_lock: delete_lock_file.
ForceDelete(p) ==
    /\ lpc[p] = "force_delete"
    /\ store_lock' = None
    /\ lpc' = [lpc EXCEPT ![p] = "unlocked"]
    /\ UNCHANGED << now, seen, granted, next_lock, nonLockVars >>

\* The command has returned Ok; the process goes on.
ForceDone(p) ==
    /\ lpc[p] = "unlocked"
    /\ lpc' = [lpc EXCEPT ![p] = "idle"]
    /\ UNCHANGED << store_lock, now, seen, granted, next_lock, nonLockVars >>

UnlockNext ==
    \/ LockNext
    \/ \E p \in Procs : ForceRead(p)
    \/ \E p \in Procs : ForceReleaseRead(p)
    \/ \E p \in Procs : ForceDelete(p)
    \/ \E p \in Procs : ForceDone(p)

SpecUnlock == LockInit /\ [][UnlockNext]_vars

\* C18: when a forced unlock returns Ok, no lock blob is present, whoever holds
\* the lock and whatever other acquire_lock or release_lock ran between its steps.
C18_ForcedUnlockDeletes ==
    [][\A p \in Procs :
          (lpc[p] # "unlocked" /\ lpc'[p] = "unlocked") => store_lock' = None]_vars

\* The step is p's read in acquire_lock.
IsAcquireRead(p) ==
    /\ lpc[p] \in {"idle", "denied"}
    /\ lpc'[p] \in {"denied", "acquiring"}
    /\ \A q \in Procs \ {p} : lpc'[q] = lpc[q]
    /\ now' = now

\* C17: acquire_lock fails with LockedByOther, the blob untouched, exactly when
\* a lock blob is present with expires_at > now; otherwise it replaces the blob
\* with a fresh LockInfo (new lock_id, acquired now, expires_at = acquired_at +
\* LOCK_EXPIRY_SECS) and returns it.
C17_AcquireFailsIffUnexpired ==
    [][\A p \in Procs :
          /\ IsAcquireRead(p)
               => /\ store_lock' = store_lock
                  /\ lpc'[p] = "denied"
                       <=> (IsSome(store_lock) /\ Unwrap(store_lock).expires_at > now)
          /\ (lpc[p] = "acquiring" /\ lpc'[p] = "held")
               => /\ IsSome(store_lock')
                  /\ granted'[p] = store_lock'
                  /\ Unwrap(store_lock').acquired_at = now
                  /\ Unwrap(store_lock').expires_at = now + LOCK_EXPIRY_SECS
                  /\ IsSome(store_lock)
                       => Unwrap(store_lock').lock_id # Unwrap(store_lock).lock_id]_vars


\* ------------------------------------------------- properties of the commands
LastReturn == trace[Len(trace)]

\* C2: every save and every create or terminate call of an apply or reconcile
\* run is made while the run holds the store's current unexpired lock.
C2_MutationsUnderLock ==
    (last_call.op \in {"save", "create", "terminate"}
     /\ last_call.kind \in {"apply", "reconcile"})
    => last_call.locked

\* C3: a state-mutating command (apply, reconcile, destroy) is at work only
\* between its acquire_lock and its release_lock: while it runs, the lock blob
\* is the unexpired lock it acquired.
C3_ScopedLockDiscipline ==
    (kind \in {"apply", "reconcile", "destroy"} /\ pc # "idle") => HoldsLock

\* The pods that were there before the first command have distinct local names.
OldPodsDistinct ==
    \A q1, q2 \in provider :
        (IdNumber(q1.id) < FirstFreshId /\ IdNumber(q2.id) < FirstFreshId
         /\ q1.pod_name = q2.pod_name /\ q1.project = q2.project)
        => q1 = q2

\* C4: with a fixed document and every provider call succeeding, once
\* check_drift has reported has_drift = false after reconcile runs, every later
\* check_drift reports false again (the fixed point stays).
C4_ConvergedStaysConverged ==
    (/\ failures = 0
     /\ OldPodsDistinct
     /\ \A i \in 1..Len(trace) : trace[i].kind \in {"reconcile", "drift"} /\ trace[i].ok
     /\ Len(trace) > 0 /\ trace[1].kind = "reconcile")
    => \A i, j \in 1..Len(trace) :
          (i < j /\ trace[i].kind = "drift" /\ trace[j].kind = "drift"
           /\ ~trace[i].has_drift)
          => ~trace[j].has_drift

\* C5: an attempt of reconcile after the first diffs against pods listed after
\* the previous attempt's actions ran: when its executor starts, the observed
\* list it diffed is a listing of what the provider holds.
C5_FreshObservationPerAttempt ==
    (kind = "reconcile" /\ attempt >= 2 /\ pc = "exec" /\ idx = 0)
    => observed \in Listings

\* Sum of gpu.count over the CreatePod actions.
RECURSIVE CreateGpuSum(_)
CreateGpuSum(actions) ==
    IF actions = << >> THEN 0
    ELSE (IF Head(actions).action_type = "CreatePod"
          THEN Unwrap(Head(actions).pod_config).count ELSE 0)
         + CreateGpuSum(Tail(actions))

\* C6: the plan passes the guardrails iff max_gpus is unset or the gpu sum of its
\* CreatePod actions is at most max_gpus; a plan that does not pass has a
\* non-empty violation list, its executor loop is never entered, and no create
\* or terminate call is made for it.
C6_GuardrailEnforcement ==
    /\ plan.passes_guardrails
         <=> (config.max_gpus = None
              \/ CreateGpuSum(plan.actions) <= Unwrap(config.max_gpus))
    /\ ~plan.passes_guardrails
         => /\ plan.guardrail_violations # << >>
            /\ pc \notin {"exec", "summary"}
    /\ last_call.op \in {"create", "terminate"} => last_call.plan_ok

\* PlanExecutor::execute and reconcile have both refused a plan of two creates of
\* 2 gpus under max_gpus = 3, and no call was made.
C6_Witness ==
    /\ pc = "idle"
    /\ Len(trace) = 2
    /\ trace[1].kind = "reconcile" /\ trace[1].error = "Aborted"
    /\ trace[2].kind = "execute" /\ trace[2].error = "Aborted"
    /\ ~plan.passes_guardrails
    /\ CreateGpuSum(plan.actions) > Unwrap(config.max_gpus)
    /\ last_call.op = "save"
    /\ provider = {}

\* C7: a guardrail violation ends reconcile after the single attempt that met
\* it, with no retry sleep.
C7_AbortWithoutRetry ==
    (kind = "reconcile" /\ last_error = Some("Aborted"))
    => (attempt = 1 /\ sleeps = 0)

\* C8: after PlanExecutor::execute returned Aborted for a non-empty plan, the
\* state it was handed has the pods and config_hash it had and exactly one more
\* history entry, whose success is false.
C8_AbortedExecuteAddsFailedEntry ==
    (pc = "idle" /\ kind = "execute" /\ Len(trace) > 0
     /\ LastReturn.error = "Aborted" /\ plan.actions # << >>)
    => LET before == Unwrap(LoadOrNew)
           after == Unwrap(state)
       IN /\ after.pods = before.pods
          /\ after.config_hash = before.config_hash
          /\ Len(after.history) = Len(before.history) + 1
          /\ SubSeq(after.history, 1, Len(before.history)) = before.history
          /\ ~after.history[Len(after.history)].success

\* C14: a reconcile that got past its listing saves the in-memory state exactly
\* once, after the attempt loop and whatever the attempts returned: no save is
\* made while the loop runs; when the run has ended its last call was its save,
\* the state blob holds the in-memory state or the failed save is the last entry
\* of result.errors, and the caller gets the attempts' error if there was one
\* and the result was no success, Ok(result) otherwise, also when the save failed.
C14_SaveOnceAfterLoop ==
    /\ (kind = "reconcile" /\ pc # "idle")
         => ~(last_call.op = "save" /\ last_call.run = Len(trace) + 1)
    /\ (kind = "reconcile" /\ pc = "idle" /\ attempt >= 1)
         => /\ last_call.op = "save"
            /\ last_call.kind = "reconcile"
            /\ last_call.run = Len(trace)
            /\ \/ load = state
               \/ /\ result.errors # << >>
                  /\ result.errors[Len(result.errors)] = "Failed to save state"
            /\ IF ~result.success /\ IsSome(last_error)
               THEN ~LastReturn.ok /\ LastReturn.error = Unwrap(last_error)
               ELSE LastReturn.ok

\* A reconcile whose attempts all succeeded but whose save failed has returned
\* Ok, with the failed save in its errors and the state blob as it was.
C14_Witness ==
    /\ kind = "reconcile"
    /\ pc = "idle"
    /\ attempt >= 1
    /\ result.success
    /\ result.errors = << "Failed to save state" >>
    /\ LastReturn.ok
    /\ load # state
    /\ provider # {}

\* C15: check_drift is read-only: the step in which a drift check runs and
\* returns leaves the provider's pods, the state blob and the lock blob as they
\* were and makes no save, delete or provisioner call.
C15_CheckDriftReadOnly ==
    [][(kind' = "drift" /\ Len(trace') = Len(trace) + 1)
         => /\ provider' = provider
            /\ store_state' = store_state
            /\ store_lock' = store_lock
            /\ last_call' = last_call]_vars

\* check_drift has reported drift with pods at the provider and another holder's
\* lock in the store, after an apply that made a call.
C15_Witness ==
    /\ pc = "idle"
    /\ kind = "drift"
    /\ Len(trace) = 2
    /\ trace[1].kind = "apply"
    /\ LastReturn.ok /\ LastReturn.has_drift
    /\ provider # {}
    /\ IsSome(store_lock)
    /\ last_call.run = 1

C19_UnexpiredLockStays ==
    [][(IsSome(store_lock) /\ ~is_expired(Unwrap(store_lock), now))
         => store_lock' = store_lock]_vars

\* C24: state.config_hash is the hash of the last successfully applied
\* document: while a command runs, it changes only at the end of an executor
\* run in which every action succeeded, and then to the hash of the plan; a run
\* with a failed or skipped action leaves it as it was.
C24_ConfigHashOnlyOnSuccess ==
    [][(pc # "idle" /\ IsSome(state) /\ IsSome(state')
          /\ Unwrap(state').config_hash # Unwrap(state).config_hash)
        => /\ pc = "summary"
           /\ \A i \in 1..Len(results) : results[i].success
           /\ Unwrap(state').config_hash = plan.config_hash]_vars

\* C27: reconcile makes at most max_attempts attempts; it starts an attempt only
\* while no attempt has succeeded; an attempt that runs the executor succeeds
\* exactly when no action failed, and then the loop ends; reconcile reports
\* success exactly when an attempt succeeded, and a reconcile that reports
\* failure after its loop has made all max_attempts attempts.
C27_ReconcileBounded ==
    /\ [](kind = "reconcile" => attempt <= DEFAULT_MAX_ATTEMPTS)
    /\ [][kind = "reconcile" =>
            /\ attempt' = attempt + 1 => ~result.success
            /\ pc = "summary" =>
                  /\ result'.success <=> failed_count(results) = 0
                  /\ result'.success => pc' = "save"
            /\ (pc = "save" /\ pc' = "idle") =>
                  /\ (LastReturn.ok /\ LastReturn.error = "none")' <=> result.success
                  /\ ~result.success => attempt = DEFAULT_MAX_ATTEMPTS]_vars

\* A reconcile whose first attempt had a failed action and whose second attempt
\* succeeded has returned success after two attempts.
C27_Witness ==
    /\ kind = "reconcile"
    /\ pc = "idle"
    /\ attempt = 2
    /\ failures = 1
    /\ result.success
    /\ LastReturn.ok
    /\ LastReturn.error = "none"

\* The diffs of a type among the given ones, in diff order.
DiffsOfType(types) == SelectSeq(diff.diffs, LAMBDA d : d.diff_type \in types)

\* C28: a plan lists a DeletePod per Delete diff in diff order, then a CreatePod
\* per Create diff in diff order, then for each Update or Drift diff in diff
\* order a DeletePod and right after it the CreatePod of the same resource;
\* it lists nothing else, so nothing for a NoChange diff and no action of
\* another type.
C28_PlanOrdering ==
    pc = "planned" =>
       LET a == plan.actions
           dels == DiffsOfType({"Delete"})
           crs == DiffsOfType({"Create"})
           recs == DiffsOfType({"Update", "Drift"})
           base == Len(dels) + Len(crs)
       IN /\ Len(a) = base + 2 * Len(recs)
          /\ \A i \in 1..Len(a) : a[i].action_type \in {"DeletePod", "CreatePod"}
          /\ \A i \in 1..Len(dels) :
                a[i].action_type = "DeletePod" /\ a[i].resource_name = dels[i].name
          /\ \A i \in 1..Len(crs) :
                /\ a[Len(dels) + i].action_type = "CreatePod"
                /\ a[Len(dels) + i].resource_name = crs[i].name
          /\ \A i \in 1..Len(recs) :
                /\ a[base + 2 * i - 1].action_type = "DeletePod"
                /\ a[base + 2 * i - 1].resource_name = recs[i].name
                /\ a[base + 2 * i].action_type = "CreatePod"
                /\ a[base + 2 * i].resource_name = recs[i].name

\* A plan for a diff with an orphan to delete, a pod to create and a pod to
\* recreate.
C28_Witness ==
    /\ pc = "planned"
    /\ DiffsOfType({"Delete"}) # << >>
    /\ DiffsOfType({"Create"}) # << >>
    /\ DiffsOfType({"Update", "Drift"}) # << >>
    /\ Len(plan.actions) = 4
    /\ diff.diffs[Len(diff.diffs)].diff_type = "Delete"
    /\ plan.actions[1].action_type = "DeletePod"

\* C29: in a plan, every dependency of the action at index k is an index below
\* k; a DeletePod and the CreatePod of a Create diff depend on nothing; the
\* CreatePod of an Update or Drift diff depends on exactly the index before
\* its own, where the DeletePod of the same resource is.
C29_DependenciesWellFormed ==
    pc = "planned" =>
       LET a == plan.actions
           base == Len(DiffsOfType({"Delete"})) + Len(DiffsOfType({"Create"}))
       IN \A i \in 1..Len(a) :
             /\ \A k \in 1..Len(a[i].dependencies) :
                   a[i].dependencies[k] >= 0 /\ a[i].dependencies[k] < i - 1
             /\ (a[i].action_type = "DeletePod" \/ i <= base)
                   => a[i].dependencies = << >>
             /\ (a[i].action_type = "CreatePod" /\ i > base)
                   => /\ a[i].dependencies = << i - 2 >>
                      /\ a[i - 1].action_type = "DeletePod"
                      /\ a[i - 1].resource_name = a[i].resource_name

\* A plan that recreates a pod after another action: the CreatePod at index 2
\* depends on the DeletePod at index 1.
C29_Witness ==
    /\ pc = "planned"
    /\ Len(plan.actions) = 3
    /\ plan.actions[3].action_type = "CreatePod"
    /\ plan.actions[3].dependencies = << 1 >>
    /\ plan.actions[2].action_type = "DeletePod"
    /\ plan.actions[2].resource_name = plan.actions[3].resource_name

\* The executor is at an action one of whose dependencies is in the failed set.
HasFailedDep ==
    /\ pc = "exec"
    /\ idx < Len(plan.actions)
    /\ \E k \in 1..Len(plan.actions[idx + 1].dependencies) :
          plan.actions[idx + 1].dependencies[k] \in failed_indices

\* The results that are skips.
Skips(rs) == {i \in 1..Len(rs) : rs[i].error = Some("Skipped due to dependency failure")}

\* C30: the executor's step at an action with a failed dependency makes no
\* provisioner call and leaves the provider and the state as they are; it
\* records the action with success = false and the error "Skipped due to
\* dependency failure" and adds its index to the failed set; and the summary
\* counts the skipped actions apart from the failed ones.
C30_SkipOnFailedDependency ==
    [][/\ HasFailedDep =>
            /\ last_call' = last_call
            /\ provider' = provider
            /\ next_id' = next_id
            /\ state' = state
            /\ results' = Append(results,
                                 [index |-> idx, success |-> FALSE, pod_id |-> None,
                                  error |-> Some("Skipped due to dependency failure")])
            /\ failed_indices' = failed_indices \cup {idx}
       /\ (pc = "summary" /\ Skips(results) # {}) =>
            LET unsuccessful == {i \in 1..Len(results) : ~results[i].success}
                h == Unwrap(state').history
            IN h[Len(h)].error =
                  Some(<< Cardinality(unsuccessful \ Skips(results)), "actions failed" >>)]_vars

\* A reconcile attempt recreated a pod: the DeletePod failed, the CreatePod
\* that depends on it was skipped, and the summary counted one failed action.
C30_Witness ==
    /\ kind = "reconcile"
    /\ pc \in {"attempt", "save"}
    /\ Len(results) = 2
    /\ ~results[1].success
    /\ results[1].error = Some("ApiRequestFailed")
    /\ Skips(results) = {2}
    /\ failed_indices = {0, 1}
    /\ failed_count(results) = 1
    /\ result.errors[1] = << 1, "of", 2, "actions failed" >>

\* --------------------------------------------- the files of the local backend
\* Two processes save to one LocalStateStore directory while a third calls
\* load and the lock operations.  A file is an inode that a path names; a blob
\* is written in WriteChunks write calls at the offset of the writer's handle.
WriteChunks == 2

\* The bytes of a JSON text, as the chunks write_all hands to the file.
Chunks(json) == [k \in 1..WriteChunks |-> [of |-> json, part |-> k]]

\* The bytes a write past the end of a file leaves before it.
Hole(json) == [of |-> json, part |-> 0]

\* Whether the chunks are the whole of one JSON text: what serde_json::from_str
\* accepts.
Parses(content) ==
    /\ Len(content) = WriteChunks
    /\ \A k \in 1..WriteChunks : content[k].part = k /\ content[k].of = content[1].of

\* The content of the file a path names; the path must name one.
FileOf(path) == inodes[dir[path]]

\* The state each process saves.
SavedBy(p) == IF p = "a" THEN StateWebApi ELSE remove_pod(StateWebV1, "web")

\* A lock another holder took at time 0, in full and cut short.
LockFiles == {Chunks(OtherLock), SubSeq(Chunks(OtherLock), 1, 1), << >>}

FileInit ==
    /\ config = DeployConfig(<< WebV1 >>, None)
    /\ provider = {}
    /\ store_state = None
    /\ store_lock = None
    /\ next_id = FirstFreshId
    /\ failures = 0
    /\ now = 0
    /\ pc = "idle"
    /\ state = None
    /\ observed = << >>
    /\ diff = EmptyDiff
    /\ plan = EmptyPlan
    /\ NoRun
    /\ NoClient
    /\ \E had_state \in BOOLEAN, locks \in {<< >>} \cup {<< l >> : l \in LockFiles} :
          /\ inodes = (IF had_state THEN << Chunks(to_json(StateWebV1)) >> ELSE << >>)
                         \o locks
          /\ dir = [f \in Paths |->
                      CASE f = "state" -> IF had_state THEN 1 ELSE 0
                        [] f = "lock" -> IF locks = << >> THEN 0 ELSE Len(inodes)
                        [] OTHER -> 0]
    /\ fpc = [p \in Procs |-> "idle"]
    /\ fd = [p \in Procs |-> [ino |-> 0, off |-> 0]]
    /\ fret = NoRet
    /\ hashes = NoHashes

nonFileVars == << config, pc, state, observed, diff, plan, provider, next_id,
                  failures, store_state, store_lock, runVars, ghostVars, lockVars,
                  hashes >>

\* save: fs::File::create(&temp_path), which makes the file or empties the one
\* the path names already.
SaveCreate(p) ==
    /\ fpc[p] = "idle"
    /\ IF dir["tmp"] = 0
       THEN /\ inodes' = Append(inodes, << >>)
            /\ dir' = [dir EXCEPT !["tmp"] = Len(inodes) + 1]
       ELSE /\ inodes' = [inodes EXCEPT ![dir["tmp"]] = << >>]
            /\ UNCHANGED dir
    /\ fd' = [fd EXCEPT ![p] = [ino |-> dir'["tmp"], off |-> 0]]
    /\ fpc' = [fpc EXCEPT ![p] = "writing"]
    /\ UNCHANGED << fret, now, nonFileVars >>

\* The content after a chunk is written at an offset: bytes before the offset
\* that the file does not have read as a hole.
write_at(content, off, chunk) ==
    [k \in 1..(IF Len(content) > off + 1 THEN Len(content) ELSE off + 1) |->
        IF k = off + 1 THEN chunk
        ELSE IF k <= Len(content) THEN content[k]
        ELSE Hole(chunk.of)]

\* save: one write call of file.write_all(content.as_bytes()).
SaveWrite(p) ==
    /\ fpc[p] = "writing"
    /\ LET json == to_json(SavedBy(p))
           off == fd[p].off
       IN /\ inodes' = [inodes EXCEPT ![fd[p].ino] =
                           write_at(@, off, Chunks(json)[off + 1])]
          /\ fd' = [fd EXCEPT ![p].off = off + 1]
          /\ fpc' = [fpc EXCEPT ![p] =
                        IF off + 1 = WriteChunks THEN "written" ELSE "writing"]
    /\ UNCHANGED << dir, fret, now, nonFileVars >>

\* save: file.sync_all() and fs::rename(&temp_path, &self.state_path), which
\* fails when the temporary path names no file any more.
SaveRename(p) ==
    /\ fpc[p] = "written"
    /\ IF dir["tmp"] # 0
       THEN /\ dir' = [dir EXCEPT !["state"] = dir["tmp"], !["tmp"] = 0]
            /\ fpc' = [fpc EXCEPT ![p] = "saved"]
       ELSE /\ fpc' = [fpc EXCEPT ![p] = "failed"]
            /\ UNCHANGED dir
    /\ UNCHANGED << inodes, fd, fret, now, nonFileVars >>

\* The next call on the files is made, and returns.
Returns(op, res, value) ==
    /\ fret.n < MaxCalls
    /\ fret' = [n |-> fret.n + 1, op |-> op, res |-> res, value |-> value]

\* LocalStateStore::load as a function of the state file.
load_file ==
    IF dir["state"] = 0 THEN [res |-> "Ok", value |-> None]
    ELSE IF Parses(FileOf("state"))
         THEN [res |-> "Ok", value |-> Some(from_json(FileOf("state")[1].of))]
         ELSE [res |-> "Corrupted", value |-> None]

FileLoad ==
    /\ Returns("load", load_file.res, load_file.value)
    /\ UNCHANGED << dir, inodes, fpc, fd, now, nonFileVars >>

\* A reader of the lock file that takes a file it cannot parse for no file.
read_lock_file_lenient ==
    IF dir["lock"] # 0 /\ Parses(FileOf("lock"))
    THEN [res |-> "Ok", value |-> Some(FileOf("lock")[1].of)]
    ELSE [res |-> "Ok", value |-> None]

\* LocalStateStore::read_lock_file
read_lock_file ==
    IF dir["lock"] = 0 THEN [res |-> "Ok", value |-> None]
    ELSE IF Parses(FileOf("lock"))
         THEN [res |-> "Ok", value |-> Some(FileOf("lock")[1].of)]
         ELSE [res |-> "Corrupted", value |-> None]

FileGetLockInfo ==
    /\ Returns("get_lock_info", read_lock_file.res, read_lock_file.value)
    /\ UNCHANGED << dir, inodes, fpc, fd, now, nonFileVars >>

FileIsLocked ==
    /\ LET r == read_lock_file
       IN Returns("is_locked", r.res,
                  r.res = "Ok" /\ IsSome(r.value) /\ ~is_expired(Unwrap(r.value), now))
    /\ UNCHANGED << dir, inodes, fpc, fd, now, nonFileVars >>

\* acquire_lock by a process that is the only caller of the lock operations:
\* read_lock_file, the is_expired test, write_lock_file.
FileAcquireLock ==
    /\ LET r == read_lock_file
           lock_info == LockInfo(LockId(fret.n + 1), "c", now)
       IN IF r.res # "Ok"
          THEN /\ Returns("acquire_lock", r.res, None)
               /\ UNCHANGED << dir, inodes >>
          ELSE IF IsSome(r.value) /\ ~is_expired(Unwrap(r.value), now)
          THEN /\ Returns("acquire_lock", "LockedByOther", None)
               /\ UNCHANGED << dir, inodes >>
          ELSE /\ Returns("acquire_lock", "Ok", Some(lock_info))
               /\ IF dir["lock"] = 0
                  THEN /\ inodes' = Append(inodes, Chunks(lock_info))
                       /\ dir' = [dir EXCEPT !["lock"] = Len(inodes) + 1]
                  ELSE /\ inodes' = [inodes EXCEPT ![dir["lock"]] = Chunks(lock_info)]
                       /\ UNCHANGED dir
    /\ UNCHANGED << fpc, fd, now, nonFileVars >>

\* release_lock(lock_id): read_lock_file, the comparison, delete_lock_file.
FileReleaseLock(lock_id) ==
    /\ LET r == read_lock_file
       IN /\ Returns("release_lock", r.res, None)
          /\ IF r.res = "Ok" /\ IsSome(r.value) /\ Unwrap(r.value).lock_id = lock_id
             THEN dir' = [dir EXCEPT !["lock"] = 0]
             ELSE UNCHANGED dir
    /\ UNCHANGED << inodes, fpc, fd, now, nonFileVars >>

FileTick ==
    /\ now < MaxTicks * TickSecs
    /\ now' = now + TickSecs
    /\ UNCHANGED << fileVars, nonFileVars >>

FileNext ==
    \/ \E p \in Procs : SaveCreate(p)
    \/ \E p \in Procs : SaveWrite(p)
    \/ \E p \in Procs : SaveRename(p)
    \/ FileLoad
    \/ FileGetLockInfo
    \/ FileIsLocked
    \/ FileAcquireLock
    \/ \E lock_id \in {"L0", "L1"} : FileReleaseLock(lock_id)
    \/ FileTick

SpecFile == FileInit /\ [][FileNext]_vars

\* C21: a load that runs while processes save never returns a partly written
\* or mixed state blob: it returns the state saved before or one of the states
\* being saved; and once every save has ended and one of them has renamed its
\* file, the state file holds one of the saved states in full.
C21_AtomicStateWrite ==
    /\ fret.op = "load" =>
          /\ fret.res = "Ok"
          /\ fret.value \in {None, Some(StateWebV1)} \cup {Some(SavedBy(p)) : p \in Procs}
    /\ ((\A p \in Procs : fpc[p] \in {"saved", "failed"})
          /\ (\E p \in Procs : fpc[p] = "saved"))
         => /\ dir["state"] # 0
            /\ \E p \in Procs : FileOf("state") = Chunks(to_json(SavedBy(p)))

LockOps == {"acquire_lock", "release_lock", "get_lock_info", "is_locked"}

\* C22: a state file or lock file that is there but does not parse makes load,
\* acquire_lock, release_lock, get_lock_info and is_locked return Corrupted and
\* leaves the files as they are (so load does not return None for it and
\* acquire_lock does not overwrite it); and Corrupted is returned in no other
\* case.
C22_UnparseableIsCorrupted ==
    [][fret'.n # fret.n =>
         LET bad_state == dir["state"] # 0 /\ ~Parses(FileOf("state"))
             bad_lock == dir["lock"] # 0 /\ ~Parses(FileOf("lock"))
         IN /\ fret'.op = "load" => (fret'.res = "Corrupted" <=> bad_state)
            /\ fret'.op \in LockOps => (fret'.res = "Corrupted" <=> bad_lock)
            /\ fret'.res = "Corrupted" => dir' = dir /\ inodes' = inodes]_vars

\* acquire_lock has returned Corrupted on a lock file cut short, which is still
\* there, while the state file does not parse either.
C22_Witness ==
    /\ fret.op = "acquire_lock"
    /\ fret.res = "Corrupted"
    /\ dir["lock"] # 0
    /\ FileOf("lock") = SubSeq(Chunks(OtherLock), 1, 1)
    /\ dir["state"] # 0
    /\ ~Parses(FileOf("state"))

\* ------------------------------------------------------ the history of a state
\* add_history called again and again on a state whose history is empty, or at
\* or just under the cap.  The n-th entry ever added carries n in its hash.
NthEntry(n, success) ==
    HistoryEntry(<< "h", n >>, << "web" >>, success,
                 IF success THEN None ELSE Some("1 actions failed"))

HistoryLens == {0, MAX_HISTORY - 2, MAX_HISTORY - 1, MAX_HISTORY}

WithHistory(n) ==
    [NewDeploymentState EXCEPT !.history = [i \in 1..n |-> NthEntry(i, TRUE)]]

HistoryInit ==
    /\ config = DeployConfig(<< WebV1 >>, None)
    /\ provider = {}
    /\ store_state = None
    /\ store_lock = None
    /\ next_id = FirstFreshId
    /\ failures = 0
    /\ now = 0
    /\ pc = "idle"
    /\ state \in {Some(WithHistory(n)) : n \in HistoryLens}
    /\ observed = << >>
    /\ diff = EmptyDiff
    /\ plan = EmptyPlan
    /\ NoRun
    /\ NoClient
    /\ NoFile
    /\ hashes = NoHashes

\* state.add_history(entry): the idx + 1-th call on this state.
AddHistory ==
    /\ idx < MaxAdds
    /\ \E success \in BOOLEAN :
          state' = Some(add_history(Unwrap(state), NthEntry(MAX_HISTORY + idx + 1, success)))
    /\ idx' = idx + 1
    /\ UNCHANGED << config, pc, observed, diff, plan, envVars, kind, continue_on_error,
                    attempt, results, failed_indices, result, last_error, sleeps,
                    ghostVars, lockVars, fileVars, hashes >>

SpecHistory == HistoryInit /\ [][AddHistory]_vars

\* C23: an add_history call on a history of at most MAX_HISTORY entries leaves
\* at most MAX_HISTORY entries, with the new entry last and before it the old
\* entries in their order, all of them when the history was under the cap and
\* all but the oldest when it was at the cap.
C23_HistoryBound ==
    [][idx' = idx + 1 =>
         LET h == Unwrap(state).history
             h2 == Unwrap(state').history
         IN /\ Len(h2) <= MAX_HISTORY
            /\ Len(h2) >= 1
            /\ h2[Len(h2)].config_hash = << "h", MAX_HISTORY + idx' >>
            /\ \E d \in {0, 1} :
                  /\ SubSeq(h2, 1, Len(h2) - 1) = SubSeq(h, d + 1, Len(h))
                  /\ d = 1 <=> Len(h) >= MAX_HISTORY]_vars

\* Three entries were added to a history one under the cap: the history is at
\* the cap, its two oldest entries are gone and the third entry added is last.
C23_Witness ==
    /\ idx = 3
    /\ IsSome(state)
    /\ Len(Unwrap(state).history) = MAX_HISTORY
    /\ Unwrap(state).history[1].config_hash = << "h", 3 >>
    /\ Unwrap(state).history[MAX_HISTORY].config_hash = << "h", MAX_HISTORY + 3 >>

\* ------------------------------------------------- the bytes the hasher is fed
\* hash_pod on pods with every hashed field, as the byte stream its update calls
\* feed to SHA-256: the digest is taken to be equal exactly when the stream is.
\* A string is the sequence of its bytes.
Letters == << "a", "b", "c", "d", "e", "f" >>
Str(chars) ==
    [i \in 1..Len(chars) |-> 96 + CHOOSE k \in 1..Len(Letters) : Letters[k] = chars[i]]

\* u16 / u32 to_be_bytes
to_be_bytes(n, width) ==
    [i \in 1..width |-> (n \div (256 ^ (width - i))) % 256]

RECURSIVE Concat(_)
Concat(parts) ==
    IF parts = << >> THEN << >> ELSE Head(parts) \o Concat(Tail(parts))

\* Ord::cmp of two strings, or of two big-endian numbers: bytewise.
RECURSIVE bytes_less(_, _)
bytes_less(x, y) ==
    IF y = << >> THEN FALSE
    ELSE IF x = << >> THEN TRUE
    ELSE IF Head(x) # Head(y) THEN Head(x) < Head(y)
    ELSE bytes_less(Tail(x), Tail(y))

\* A stable sort of [key, bytes] items by key: sort_by / sort_unstable.
RECURSIVE insert_sorted(_, _)
insert_sorted(sorted, item) ==
    IF sorted = << >> THEN << item >>
    ELSE IF bytes_less(item.key, Head(sorted).key) THEN << item >> \o sorted
    ELSE << Head(sorted) >> \o insert_sorted(Tail(sorted), item)

RECURSIVE sort_by_key(_)
sort_by_key(items) ==
    IF items = << >> THEN << >>
    ELSE insert_sorted(sort_by_key(SubSeq(items, 1, Len(items) - 1)), items[Len(items)])

\* The bytes of the items in the order in which they were declared.
unsorted_bytes(items) ==
    Concat([i \in 1..Len(items) |-> items[i].bytes])

\* The bytes of the items in the order of their keys.
sorted_bytes(items) ==
    LET s == sort_by_key(items) IN Concat([i \in 1..Len(s) |-> s[i].bytes])

\* The bytes of an Option: nothing for None.
opt_bytes(o) == IF IsSome(o) THEN Unwrap(o) ELSE << >>
opt_u32(o) == IF IsSome(o) THEN to_be_bytes(Unwrap(o), 4) ELSE << >>

volume_bytes(v) ==
    v.name \o v.mount \o << IF v.persistent THEN 1 ELSE 0 >> \o opt_u32(v.size_gb)

model_bytes(m) ==
    m.id \o opt_bytes(m.repo)
         \o (IF IsSome(m.load)
             THEN Unwrap(m.load).engine \o opt_bytes(Unwrap(m.load).quant)
                                       \o opt_u32(Unwrap(m.load).max_seq_len)
             ELSE << >>)

\* ConfigHasher::hash_pod: everything passed to hasher.update, in order.
hash_pod_bytes(pod) ==
    Concat(<<
       pod.name,
       pod.gpu_type,
       to_be_bytes(pod.count, 4),
       opt_u32(pod.min_vram_gb),
       Concat(pod.fallback),
       sorted_bytes([i \in 1..Len(pod.ports) |->
                       [key |-> to_be_bytes(pod.ports[i], 2),
                        bytes |-> to_be_bytes(pod.ports[i], 2)]]),
       sorted_bytes([i \in 1..Len(pod.volumes) |->
                       [key |-> pod.volumes[i].name,
                        bytes |-> volume_bytes(pod.volumes[i])]]),
       pod.image,
       sorted_bytes([i \in 1..Len(pod.env) |->
                       [key |-> pod.env[i][1],
                        bytes |-> pod.env[i][1] \o pod.env[i][2]]]),
       IF IsSome(pod.command) THEN Concat(Unwrap(pod.command)) ELSE << >>,
       IF IsSome(pod.args) THEN Concat(Unwrap(pod.args)) ELSE << >>,
       sorted_bytes([i \in 1..Len(pod.models) |->
                       [key |-> pod.models[i].id,
                        bytes |-> model_bytes(pod.models[i])]]),
       sorted_bytes([i \in 1..Len(pod.tags) |->
                       [key |-> pod.tags[i][1],
                        bytes |-> pod.tags[i][1] \o pod.tags[i][2]]]) >>)

\* What hash_config is fed for a document of this project with no region and no
\* guardrails: project name, environment, each pod's digest in document order.
hash_config_bytes(pod_hashes) == << PROJECT, ENVIRONMENT, pod_hashes >>

\* The pods given to the hasher: one pod, the same pod with its collections
\* declared in another order, and pods that differ from it in one or two fields.
Volume(name, mount, persistent) ==
    [name |-> Str(name), mount |-> Str(mount), persistent |-> persistent,
     size_gb |-> Some(50)]
Model(id, quant) ==
    [id |-> Str(id), repo |-> Some(Str(<< "f" >>)),
     load |-> Some([engine |-> Str(<< "e" >>), quant |-> quant, max_seq_len |-> None])]

BasePod ==
    [name |-> Str(<< "a", "b" >>), gpu_type |-> Str(<< "c" >>), count |-> 1,
     min_vram_gb |-> None, fallback |-> << >>,
     ports |-> << 443, 80 >>,
     volumes |-> << Volume(<< "b" >>, << "d", "b" >>, TRUE),
                    Volume(<< "a" >>, << "d", "a" >>, FALSE) >>,
     image |-> Str(<< "e" >>),
     env |-> << << Str(<< "b" >>), Str(<< "f" >>) >>,
                << Str(<< "a" >>), Str(<< "e" >>) >> >>,
     command |-> None, args |-> None,
     models |-> << Model(<< "b" >>, None), Model(<< "a" >>, Some(Str(<< "d" >>))) >>,
     tags |-> << << Str(<< "c" >>), Str(<< "a" >>) >>,
                 << Str(<< "a" >>), Str(<< "c" >>) >> >>]

Reverse(s) == [i \in 1..Len(s) |-> s[Len(s) + 1 - i]]

HashedPods ==
    { BasePod,
      [BasePod EXCEPT !.ports = Reverse(@)],
      [BasePod EXCEPT !.volumes = Reverse(@)],
      [BasePod EXCEPT !.env = Reverse(@)],
      [BasePod EXCEPT !.models = Reverse(@)],
      [BasePod EXCEPT !.tags = Reverse(@)],
      [BasePod EXCEPT !.ports = Reverse(@), !.volumes = Reverse(@), !.env = Reverse(@),
                      !.models = Reverse(@), !.tags = Reverse(@)],
      [BasePod EXCEPT !.name = Str(<< "a", "c" >>)],
      [BasePod EXCEPT !.name = Str(<< "a" >>), !.gpu_type = Str(<< "b", "c" >>)],
      [BasePod EXCEPT !.count = 2],
      [BasePod EXCEPT !.min_vram_gb = Some(24)],
      [BasePod EXCEPT !.fallback = << Str(<< "a", "b" >>) >>],
      [BasePod EXCEPT !.fallback = << Str(<< "a" >>), Str(<< "b" >>) >>],
      [BasePod EXCEPT !.image = Str(<< "f" >>)],
      [BasePod EXCEPT !.command = Some(<< Str(<< "a" >>) >>)],
      [BasePod EXCEPT !.args = Some(<< Str(<< "a" >>) >>)],
      [BasePod EXCEPT !.volumes[1].persistent = FALSE],
      [BasePod EXCEPT !.env[1][2] = Str(<< "e" >>)],
      [BasePod EXCEPT !.tags = << >>] }

HashInit ==
    /\ config = DeployConfig(<< WebV1 >>, None)
    /\ provider = {}
    /\ store_state = None
    /\ store_lock = None
    /\ next_id = FirstFreshId
    /\ failures = 0
    /\ now = 0
    /\ pc = "idle"
    /\ state = None
    /\ observed = << >>
    /\ diff = EmptyDiff
    /\ plan = EmptyPlan
    /\ NoRun
    /\ NoClient
    /\ NoFile
    /\ hashes \in {[NoHashes EXCEPT !.a = p, !.b = q] : p, q \in HashedPods}

\* hasher.hash_pod(a) and hasher.hash_pod(b)
HashPods ==
    /\ ~hashes.done
    /\ hashes' = [hashes EXCEPT !.ha = hash_pod_bytes(hashes.a),
                                !.hb = hash_pod_bytes(hashes.b),
                                !.done = TRUE]
    /\ UNCHANGED << config, pc, state, observed, diff, plan, envVars, runVars,
                    ghostVars, lockVars, fileVars >>

SpecHash == HashInit /\ [][HashPods]_vars

\* Whether t lists the elements of s, each as often, in some order.
IsPerm(s, t) ==
    /\ Len(s) = Len(t)
    /\ \E f \in Permutations(1..Len(s)) : \A i \in 1..Len(s) : t[i] = s[f[i]]

\* Whether two pods differ at most in the declared order of their ports, volumes,
\* environment, models and tags.
SameUpToOrder(p, q) ==
    /\ \A f \in {"name", "gpu_type", "count", "min_vram_gb", "fallback", "image",
                  "command", "args"} : p[f] = q[f]
    /\ \A f \in {"ports", "volumes", "env", "models", "tags"} : IsPerm(p[f], q[f])

\* C25: two pods that differ only in the declared order of their environment,
\* tags, volumes, ports and models are fed to the hash as the same bytes, so
\* they have one digest; and a document hash is fed other bytes when two pods
\* with different digests change places.
C25_HashOrderInsensitive ==
    hashes.done =>
       /\ SameUpToOrder(hashes.a, hashes.b) => hashes.ha = hashes.hb
       /\ hashes.ha # hashes.hb =>
             hash_config_bytes(<< hashes.ha, hashes.hb >>)
               # hash_config_bytes(<< hashes.hb, hashes.ha >>)

\* A pod and the same pod with all five collections declared in reverse have
\* been hashed.
C25_Witness ==
    /\ hashes.done
    /\ hashes.a = BasePod
    /\ hashes.b = [BasePod EXCEPT !.ports = Reverse(@), !.volumes = Reverse(@),
                                  !.env = Reverse(@), !.models = Reverse(@),
                                  !.tags = Reverse(@)]
    /\ hashes.ha = hashes.hb

\* C26: two pods that differ in a hashed field are fed to the hash as different
\* bytes.
C26_HashDistinct ==
    hashes.done =>
       (~SameUpToOrder(hashes.a, hashes.b) => hashes.ha # hashes.hb)

\* ------------------------------------------------- continue-on-error (C31)
\* The results of the running executor that are failures.
Unsuccessful(rs) == {i \in 1..Len(rs) : ~rs[i].success}

\* The executor of cmd_apply or of a direct execute call is in its run.
InExecute == kind \in {"apply", "execute"} /\ pc \in {"exec", "summary", "save"}

\* Action i (from 0) of the plan is recorded as skipped exactly when one of its
\* dependencies is recorded as unsuccessful.
SkippedIffDepFailed(i) ==
    (results[i + 1].error = Some(SKIPPED)) <=>
        \E k \in 1..Len(plan.actions[i + 1].dependencies) :
            plan.actions[i + 1].dependencies[k] + 1 \in Unsuccessful(results)

DeleteGot404(i) ==
    /\ pc \in {"exec", "summary"}
    /\ Len(results) = i + 1
    /\ plan.actions[i + 1].action_type = "DeletePod"
    /\ results[i + 1].error = Some("ApiRequestFailed 404")

ExecuteReturned ==
    /\ pc = "idle"
    /\ kind = "execute"
    /\ Len(trace) > 0
    /\ trace[Len(trace)].kind = "execute"
    /\ trace[Len(trace)].ok

\* The state has one history entry more than the loaded one, for a Create of
\* the plan's resources under the plan's hash, a success exactly when no result
\* is unsuccessful, with an error text otherwise; config_hash is the plan's.
Bookkept ==
    LET before == Unwrap(LoadOrNew)
        after == Unwrap(state)
        entry == after.history[Len(after.history)]
    IN /\ Len(after.history) = Len(before.history) + 1
       /\ SubSeq(after.history, 1, Len(before.history)) = before.history
       /\ entry.operation = "Create"
       /\ entry.config_hash = plan.config_hash
       /\ entry.resources = [i \in 1..Len(plan.actions) |-> plan.actions[i].resource_name]
       /\ entry.success = (\A i \in 1..Len(results) : results[i].success)
       /\ (entry.error = None) = entry.success
       /\ after.config_hash = plan.config_hash

\* C33: every execute call that returns a result, an empty plan and a run
\* stopped at its first failure included, has added exactly one history entry
\* and set state.config_hash to the plan's hash.
C33_BookkeepingAlways == ExecuteReturned => Bookkept

\* C33, amended: every execute call that runs its loop (a plan with actions
\* that passes the guardrails), a run stopped at its first failure included,
\* has added exactly one history entry and set state.config_hash to the plan's
\* hash; an execute call on an empty plan returns success and leaves the history
\* and config_hash of the state as they were.
C33_BookkeepingAfterLoop ==
    ExecuteReturned =>
        IF plan.actions # << >> THEN Bookkept
        ELSE /\ state = LoadOrNew
             /\ trace[Len(trace)].error = "none"

\* An execute without continue_on_error returned after its first action failed,
\* the second never tried.
C33_Witness ==
    /\ ExecuteReturned
    /\ ~continue_on_error
    /\ Len(plan.actions) = 2
    /\ Len(results) = 1
    /\ ~results[1].success
    /\ Bookkept

\* ------------------------------------------------------ execution order (C34)
\* Action i (from 0) of the plan is the CreatePod of a recreate pair: the action
\* before it is the DeletePod of the same resource.
PairedCreate(i) ==
    /\ i >= 1
    /\ plan.actions[i + 1].action_type = "CreatePod"
    /\ plan.actions[i].action_type = "DeletePod"
    /\ plan.actions[i].resource_name = plan.actions[i + 1].resource_name

CreateStep ==
    /\ InLoop
    /\ results' # results
    /\ Action.action_type = "CreatePod"
    /\ results'[Len(results')].error # Some(SKIPPED)

MaxPlanLen == 3

ActionTypes == {"CreatePod", "DeletePod", "StopPod", "ResumePod", "Noop"}

\* The plan whose action types are ts: a CreatePod that follows a DeletePod
\* depends on it, as in a recreate.
HandPlan(ts) ==
    [config_hash |-> hash_config(DeployConfig(<< WebV1 >>, None)),
     actions |->
        [i \in 1..Len(ts) |->
            PlannedAction(ts[i], "web",
                          IF ts[i] = "CreatePod" THEN Some(WebV1) ELSE None,
                          None,
                          IF ts[i] = "CreatePod" THEN Some(hash_pod(WebV1)) ELSE None,
                          IF i > 1 /\ ts[i] = "CreatePod" /\ ts[i - 1] = "DeletePod"
                          THEN << i - 2 >> ELSE << >>)],
     passes_guardrails |-> TRUE,
     guardrail_violations |-> << >>]

HandPlans ==
    {HandPlan(ts) : ts \in UNION {[1..n -> ActionTypes] : n \in 1..MaxPlanLen}}

PlanInit ==
    /\ config = DeployConfig(<< WebV1 >>, None)
    /\ provider \in {{}, {ObsWebV1}}
    /\ store_state = None
    /\ store_lock = None
    /\ next_id = FirstFreshId
    /\ failures = 0
    /\ now = 0
    /\ pc = "exec"
    /\ state \in {Some(NewDeploymentState), Some(StateWebV1)}
    /\ observed = << >>
    /\ diff = EmptyDiff
    /\ plan \in HandPlans
    /\ kind = "execute"
    /\ continue_on_error \in BOOLEAN
    /\ attempt = 0
    /\ idx = 0
    /\ results = << >>
    /\ failed_indices = {}
    /\ result = NoResult
    /\ last_error = None
    /\ sleeps = 0
    /\ trace = << >>
    /\ last_call = NoCall
    /\ NoClient
    /\ NoFile
    /\ hashes = NoHashes

\* PodState::set_status
set_status(pod, status) == [pod EXCEPT !.status = status]

\* if let Some(pod_state) = state.get_pod_mut(name) { pod_state.set_status(status) }
set_status_of(st, name, status) ==
    IF IsSome(get_pod(st, name))
    THEN set_pod(st, set_status(Unwrap(get_pod(st, name)), status))
    ELSE st

\* execute_stop and execute_resume: the pod id is the action's, else the
\* record's; with none the action fails without a call; else the provisioner
\* call succeeds (the provider holds the pod) and the record, if there is one,
\* takes the status, or the call fails.
ExecuteSetStatus(action_type, op, status) ==
    /\ InLoop
    /\ ~deps_failed
    /\ Action.action_type = action_type
    /\ LET pod_id == delete_pod_id(Action, Unwrap(state))
       IN IF pod_id = None
          THEN /\ results' = Append(results, ActionResult(idx, FALSE, None, Some("Pod not found")))
               /\ failed_indices' = failed_indices \cup {idx}
               /\ Advance(FALSE)
               /\ UNCHANGED << state, failures, last_call >>
          ELSE /\ \/ /\ \E q \in provider : q.id = Unwrap(pod_id)
                     /\ state' = Some(set_status_of(Unwrap(state), Action.resource_name, status))
                     /\ results' = Append(results, ActionResult(idx, TRUE, pod_id, None))
                     /\ Advance(TRUE)
                     /\ UNCHANGED << failures, failed_indices >>
                  \/ /\ failures < MaxFailures
                     /\ failures' = failures + 1
                     /\ results' = Append(results, ActionResult(idx, FALSE, pod_id, Some("ApiRequestFailed")))
                     /\ failed_indices' = failed_indices \cup {idx}
                     /\ Advance(FALSE)
                     /\ UNCHANGED state
               /\ Call(op, pod_id)
    /\ UNCHANGED << config, observed, diff, plan, kind, continue_on_error, attempt,
                    result, last_error, sleeps, provider, next_id, store_state,
                    store_lock, now, trace, lockVars, fileVars, hashes >>

ExecuteStop == ExecuteSetStatus("StopPod", "stop", "Stopped")

ExecuteResume == ExecuteSetStatus("ResumePod", "resume", "Running")

\* execute_action on a Noop: a success without a call.
ExecuteNoop ==
    /\ InLoop
    /\ ~deps_failed
    /\ Action.action_type = "Noop"
    /\ results' = Append(results, ActionResult(idx, TRUE, None, None))
    /\ Advance(TRUE)
    /\ UNCHANGED << config, state, observed, diff, plan, kind, continue_on_error,
                    attempt, failed_indices, result, last_error, sleeps, envVars,
                    ghostVars, lockVars, fileVars, hashes >>

PlanNext ==
    \/ ExecuteSkip
    \/ ExecuteCreate
    \/ ExecuteDeleteNoId
    \/ ExecuteDelete
    \/ ExecuteStop
    \/ ExecuteResume
    \/ ExecuteNoop
    \/ ExecuteSummary

SpecPlan == PlanInit /\ [][PlanNext]_vars

\* The edges of the pod status machine.
StatusEdges ==
    { << "Creating", "Running" >>, << "Creating", "Error" >>,
      << "Running", "Stopped" >>, << "Running", "Deleting" >>,
      << "Stopped", "Running" >>, << "Deleting", "Deleted" >> }

\* C36: a record that enters the state has status Creating, and the status of a
\* record that stays (same name, same provider id) changes only along an edge of
\* the status machine, whatever plan execute runs: a StopPod turns only a
\* Running record to Stopped, a ResumePod only a Stopped record to Running.
C36_StatusMachine ==
    [][\A n \in DOMAIN Unwrap(state').pods :
          LET new == Unwrap(state').pods[n]
          IN IF n \in DOMAIN Unwrap(state).pods
                /\ Unwrap(state).pods[n].runpod_id = new.runpod_id
             THEN \/ Unwrap(state).pods[n].status = new.status
                  \/ << Unwrap(state).pods[n].status, new.status >> \in StatusEdges
             ELSE new.status = "Creating"]_vars

\* ------------------------------------------ the client's retry loop (C37)
\* One call of RunPodClient::execute.  attempt is the loop variable, trace the
\* responses the call has received, sleeps the delays it has slept (ms),
\* last_error and result as in the code, kind the method that makes the call.

MAX_RETRIES == 3
RETRY_DELAY_MS == 1000

ClientMethods == {"list_pods", "get_pod", "create_pod", "terminate_pod"}

\* An is_retryable that holds of every error.
is_retryable_always(e) == TRUE

\* HalldyllError::is_retryable
is_retryable(e) == e \in {"RateLimited", "NetworkError", "LockFailed"}

ClientInit ==
    /\ config = DeployConfig(<< WebV1 >>, None)
    /\ provider = {}
    /\ store_state = None
    /\ store_lock = None
    /\ next_id = FirstFreshId
    /\ failures = 0
    /\ now = 0
    /\ pc = "loop"
    /\ state = None
    /\ observed = << >>
    /\ diff = EmptyDiff
    /\ plan = EmptyPlan
    /\ kind \in ClientMethods
    /\ continue_on_error = FALSE
    /\ attempt = 0
    /\ idx = 0
    /\ results = << >>
    /\ failed_indices = {}
    /\ result = NoResult
    /\ last_error = None
    /\ sleeps = << >>
    /\ trace = << >>
    /\ last_call = NoCall
    /\ NoClient
    /\ NoFile
    /\ hashes = NoHashes

\* The head of the for loop while attempts remain: a retry sleeps first.
ClientAttempt ==
    /\ pc = "loop"
    /\ attempt < MAX_RETRIES
    /\ sleeps' = IF attempt > 0 THEN Append(sleeps, RETRY_DELAY_MS * attempt) ELSE sleeps
    /\ pc' = "send"
    /\ UNCHANGED << config, state, observed, diff, plan, envVars, kind,
                    continue_on_error, attempt, idx, results, failed_indices, result,
                    last_error, ghostVars, lockVars, fileVars, hashes >>

\* execute_once and the match on what it returned.
ClientSend ==
    /\ pc = "send"
    /\ \E response \in Responses :
          LET e == execute_once(response)
          IN /\ trace' = Append(trace, response)
             /\ IF e = "none"
                THEN /\ result' = [success |-> TRUE, errors |-> << >>]
                     /\ pc' = "done"
                     /\ UNCHANGED << attempt, last_error >>
                ELSE IF is_retryable(e)
                THEN /\ last_error' = Some(e)
                     /\ attempt' = attempt + 1
                     /\ pc' = "loop"
                     /\ UNCHANGED result
                ELSE /\ result' = [success |-> FALSE, errors |-> << e >>]
                     /\ pc' = "done"
                     /\ UNCHANGED << attempt, last_error >>
    /\ UNCHANGED << config, state, observed, diff, plan, envVars, kind,
                    continue_on_error, idx, results, failed_indices, sleeps,
                    last_call, lockVars, fileVars, hashes >>

\* After the loop: Err(last_error), or "Max retries exceeded" were there none.
ClientGiveUp ==
    /\ pc = "loop"
    /\ attempt = MAX_RETRIES
    /\ result' = [success |-> FALSE,
                  errors |-> << IF IsSome(last_error) THEN Unwrap(last_error)
                                ELSE "NetworkError" >>]
    /\ pc' = "done"
    /\ UNCHANGED << config, state, observed, diff, plan, envVars, kind,
                    continue_on_error, attempt, idx, results, failed_indices,
                    last_error, sleeps, ghostVars, lockVars, fileVars, hashes >>

ClientNext == ClientAttempt \/ ClientSend \/ ClientGiveUp

SpecClient == ClientInit /\ [][ClientNext]_vars

\* The errors after which the claim lets a call be retried.
Transient(response) == execute_once(response) \in {"NetworkError", "RateLimited"}

\* C37: a call makes at most 3 requests; it makes a further request only after
\* a NetworkError or a RateLimited; before the n-th retry it sleeps n times 1 s;
\* data ends the call with Ok and any other error ends it with that error at
\* once; after 3 transient errors the call returns the last of them.
C37_RetryPolicy ==
    /\ Len(trace) <= 3
    /\ \A i \in 1..(Len(trace) - 1) : Transient(trace[i])
    /\ Len(sleeps) = (IF pc = "send" THEN Len(trace)
                      ELSE IF Len(trace) = 0 THEN 0 ELSE Len(trace) - 1)
    /\ \A n \in 1..Len(sleeps) : sleeps[n] = 1000 * n
    /\ pc = "done" =>
          LET last == trace[Len(trace)]
          IN /\ Len(trace) >= 1
             /\ Transient(last) => Len(trace) = 3
             /\ IF execute_once(last) = "none"
                THEN result = [success |-> TRUE, errors |-> << >>]
                ELSE result = [success |-> FALSE, errors |-> << execute_once(last) >>]

\* Three transient errors in a row: two sleeps, and the last error is returned.
C37_Witness ==
    /\ pc = "done"
    /\ trace = << "429", "network", "429" >>
    /\ sleeps = << 1000, 2000 >>
    /\ result = [success |-> FALSE, errors |-> << "RateLimited" >>]

\* ------------------------------------------- GPU fallback in create_pod (C38)
\* One call of PodProvisioner::create_pod.  config is the pod's GpuConfig with
\* the document's guardrails.allow_gpu_fallback, observed the GPU types the
\* provider reports as available in the project's cloud, idx the position in
\* the fallback list, trace the ids asked of is_gpu_available, provider the pods
\* created.

MaxFallbacks == 2

\* gpu_type_map after init_gpu_types: display name to id.  "Unlisted" is a type
\* the provider did not list.
GpuNames == {"A40", "A100", "H100"}
gpu_type_map ==
    [n \in GpuNames |-> CASE n = "A40" -> "NVIDIA A40"
                          [] n = "A100" -> "NVIDIA A100"
                          [] OTHER -> "NVIDIA H100"]

\* PodProvisioner::resolve_gpu_type
resolve_gpu_type(gpu_type) ==
    IF gpu_type \in DOMAIN gpu_type_map THEN Some(gpu_type_map[gpu_type]) ELSE None

\* The fallback lists of the model: up to MaxFallbacks names, none twice.
FallbackLists ==
    {f \in UNION {[1..n -> {"A100", "H100"}] : n \in 0..MaxFallbacks} :
        \A i, j \in 1..Len(f) : i # j => f[i] # f[j]}

GpuInit ==
    /\ config \in {[gpu |-> [gpu_type |-> t, fallback |-> f], allow_gpu_fallback |-> b] :
                      t \in {"A40", "Unlisted"}, f \in FallbackLists, b \in BOOLEAN}
    /\ observed \in SUBSET {gpu_type_map[n] : n \in GpuNames}
    /\ provider = {}
    /\ store_state = None
    /\ store_lock = None
    /\ next_id = FirstFreshId
    /\ failures = 0
    /\ now = 0
    /\ pc = "primary"
    /\ state = None
    /\ diff = EmptyDiff
    /\ plan = EmptyPlan
    /\ kind = "create_pod"
    /\ continue_on_error = FALSE
    /\ attempt = 0
    /\ idx = 0
    /\ results = << >>
    /\ failed_indices = {}
    /\ result = NoResult
    /\ last_error = None
    /\ sleeps = 0
    /\ trace = << >>
    /\ last_call = NoCall
    /\ NoClient
    /\ NoFile
    /\ hashes = NoHashes

\* if let Some(gpu_id) = resolve_gpu_type(name) { if is_gpu_available(gpu_id)? {
\* return Ok(gpu_id) } }: the type is taken, or passed over (next), or the query
\* fails and create_pod returns its error.
TryGpu(gpu_type, next, next_idx) ==
    LET gpu_id == resolve_gpu_type(gpu_type)
    IN IF gpu_id = None
       THEN /\ pc' = next
            /\ idx' = next_idx
            /\ UNCHANGED << trace, result, failures >>
       ELSE \/ /\ trace' = Append(trace, Unwrap(gpu_id))
               /\ IF Unwrap(gpu_id) \in observed
                  THEN pc' = "create" /\ UNCHANGED idx
                  ELSE pc' = next /\ idx' = next_idx
               /\ UNCHANGED << result, failures >>
            \/ /\ failures < MaxFailures
               /\ failures' = failures + 1
               /\ trace' = Append(trace, Unwrap(gpu_id))
               /\ result' = [success |-> FALSE, errors |-> << "NetworkError" >>]
               /\ pc' = "done"
               /\ UNCHANGED idx

\* resolve_gpu_type_with_fallback: the primary GPU type.
ResolvePrimary ==
    /\ pc = "primary"
    /\ TryGpu(config.gpu.gpu_type, "fallback", 0)
    /\ UNCHANGED << config, state, observed, diff, plan, kind, continue_on_error,
                    attempt, results, failed_indices, last_error, sleeps, provider,
                    next_id, store_state, store_lock, now, last_call, lockVars,
                    fileVars, hashes >>

\* One pass of the loop over gpu_config.fallback.
ResolveFallback ==
    /\ pc = "fallback"
    /\ idx < Len(config.gpu.fallback)
    /\ TryGpu(config.gpu.fallback[idx + 1], "fallback", idx + 1)
    /\ UNCHANGED << config, state, observed, diff, plan, kind, continue_on_error,
                    attempt, results, failed_indices, last_error, sleeps, provider,
                    next_id, store_state, store_lock, now, last_call, lockVars,
                    fileVars, hashes >>

\* After the loop: Err(GpuNotAvailable), which create_pod returns.
ResolveFail ==
    /\ pc = "fallback"
    /\ idx = Len(config.gpu.fallback)
    /\ result' = [success |-> FALSE, errors |-> << "GpuNotAvailable" >>]
    /\ pc' = "done"
    /\ UNCHANGED << config, state, observed, diff, plan, kind, continue_on_error,
                    attempt, idx, results, failed_indices, last_error, sleeps, envVars,
                    ghostVars, lockVars, fileVars, hashes >>

\* build_create_request and client.create_pod with the resolved GPU type id,
\* the one is_gpu_available was asked last.
CreateWithGpu ==
    /\ pc = "create"
    /\ \/ /\ provider' = provider \cup {[id |-> PodId(next_id), gpu_type_id |-> trace[Len(trace)]]}
          /\ next_id' = next_id + 1
          /\ result' = [success |-> TRUE, errors |-> << >>]
          /\ UNCHANGED failures
       \/ /\ failures < MaxFailures
          /\ failures' = failures + 1
          /\ result' = [success |-> FALSE, errors |-> << "ApiRequestFailed" >>]
          /\ UNCHANGED << provider, next_id >>
    /\ pc' = "done"
    /\ UNCHANGED << config, state, observed, diff, plan, kind, continue_on_error,
                    attempt, idx, results, failed_indices, last_error, sleeps,
                    store_state, store_lock, now, ghostVars, lockVars, fileVars, hashes >>

GpuNext == ResolvePrimary \/ ResolveFallback \/ ResolveFail \/ CreateWithGpu

SpecGpu == GpuInit /\ [][GpuNext]_vars

\* The primary GPU type is unavailable: unlisted, or not in the cloud.
PrimaryUnavailable ==
    \/ resolve_gpu_type(config.gpu.gpu_type) = None
    \/ Unwrap(resolve_gpu_type(config.gpu.gpu_type)) \notin observed

\* C38: with the primary GPU type unavailable, a fallback type is asked for, and
\* a pod created, only when guardrails.allow_gpu_fallback is true; when it is
\* false the create fails with GpuNotAvailable and the provider holds no pod.
C38_FallbackGated ==
    (PrimaryUnavailable /\ ~config.allow_gpu_fallback) =>
        /\ provider = {}
        /\ \A i \in 1..Len(trace) :
              Some(trace[i]) = resolve_gpu_type(config.gpu.gpu_type)
        /\ pc = "done" =>
              \/ result = [success |-> FALSE, errors |-> << "GpuNotAvailable" >>]
              \/ result = [success |-> FALSE, errors |-> << "NetworkError" >>]

\* ------------------------------------------- the pod a recreate deletes (C39)
\* C39: the DeletePod of a recreate pair (the delete from_diff emits for an
\* Update or Drift diff) terminates the observed pod that bears the resource
\* name: the pod id execute_delete uses is that pod's provider id, whatever
\* details the diff carries and whether or not the state has a record.
C39_RecreateDeletesObserved ==
    [][(/\ InLoop
        /\ results' # results
        /\ Action.action_type = "DeletePod"
        /\ idx + 2 <= Len(plan.actions)
        /\ PairedCreate(idx + 1))
       => delete_pod_id(Action, Unwrap(state)) =
             Some(Unwrap(observed_by_name(observed, Action.resource_name)).id)]_vars

\* -------------------------------------- creates across attempts (C40)
\* The pod was made by a create call of the behaviour, not held at its start.
Minted(q) == IdNumber(q.id) >= FirstFreshId

\* C40: the attempts of one reconcile call create a desired pod at most once
\* unless it was terminated in between: while the first command of a behaviour
\* is a reconcile, the provider never holds two pods of one name that the
\* command created.
C40_NoRecreateAcrossAttempts ==
    (kind = "reconcile" /\ trace = << >>) =>
        \A q1, q2 \in provider :
            (Minted(q1) /\ Minted(q2) /\ q1.pod_name = q2.pod_name) => q1 = q2

=============================================================================
